---------------------------- MODULE Spec2Model ----------------------------
(***************************************************************************)
(* A model of the Stormgate replay parser (posunero/unworthy):             *)
(*   entity_tracker.py   EntityTracker                                     *)
(*   protobuf.py         decode_varint, _decode_message_internal           *)
(*   replay_analyzers.py frame_to_time                                     *)
(*   parse_sgreplay.py   SGReplayParser (parse, _extract_actions,          *)
(*                       get_game_result, get_building_orders,             *)
(*                       get_player_factions, to_json)                     *)
(* Each component has its own specification over the shared variables; a   *)
(* specification leaves the variables of the other components untouched.   *)
(***************************************************************************)
EXTENDS Integers, Sequences, FiniteSets, TLC

VARIABLES
    pc,              \* where the running component is in its code
    entities,        \* EntityTracker.entities: target_id -> entity record
    log,             \* history: the actions handed to record_action, in order
    data,            \* the byte string handed to the decoder
    offset,          \* the position in it at which decoding starts
    decoded,         \* what decode_message returned for it
    actions,         \* SGReplayParser.actions, the projected action list
    buildings_json,  \* whether buildings.json was found (BUILDING_LOOKUP)
    building_orders, \* what get_building_orders returned
    player_upgrades, \* what get_player_upgrades returned
    stormgate_rewards, \* what get_stormgate_rewards returned
    unit_production_timeline, \* what get_unit_production returned
    raw_messages,    \* SGReplayParser.raw_messages: length and bytes of each record
    messages,        \* SGReplayParser.messages, the decoded records
    footer,          \* SGReplayParser.footer, the simplified footer
    players,         \* SGReplayParser.players: slot -> name
    max_sync_time,   \* SGReplayParser.max_sync_time
    raised,          \* the exception that reached the caller, if any
    json,            \* the document to_json returned
    factions,        \* the local dict of get_player_factions
    scan,            \* how many actions get_player_factions has looked at
    frame_arg,       \* the argument of frame_to_time
    time_ret,        \* what frame_to_time returned for it
    call,            \* the depth and end_group_field of a decoder call
    include_bytes,   \* SGReplayParser.include_bytes
    bytes_hex_limit, \* SGReplayParser.bytes_hex_limit
    replay_files,    \* get_summary: the replay files found, sorted
    futures,         \* get_summary: the files whose parse has not completed
    replays_data,    \* get_summary: the local list replays_data
    request          \* get_summary: the limit and changelist of the request

entityVars == <<entities, log>>
decodeVars == <<data, offset, decoded, call>>
rollupVars == <<player_upgrades, stormgate_rewards, unit_production_timeline>>
buildVars == <<actions, buildings_json, building_orders, rollupVars>>
parseVars ==
    <<raw_messages, messages, footer, players, max_sync_time, raised, json>>
factionVars == <<factions, scan>>
timeVars == <<frame_arg, time_ret>>
optionVars == <<include_bytes, bytes_hex_limit>>
webVars == <<replay_files, futures, replays_data, request>>

vars ==
    <<pc, entityVars, decodeVars, buildVars, parseVars, factionVars, timeVars,
      optionVars, webVars>>

\* The value of a variable that the running specification does not use.
Unused == <<>>

EntityUnused == entities = Unused /\ log = Unused
DecodeUnused ==
    data = Unused /\ offset = Unused /\ decoded = Unused /\ call = Unused
RollupUnused ==
    /\ player_upgrades = Unused /\ stormgate_rewards = Unused
    /\ unit_production_timeline = Unused
BuildUnused ==
    /\ actions = Unused /\ buildings_json = Unused /\ building_orders = Unused
    /\ RollupUnused
ParseUnused ==
    /\ raw_messages = Unused
    /\ messages = Unused /\ footer = Unused /\ players = Unused
    /\ max_sync_time = Unused /\ raised = Unused /\ json = Unused
FactionUnused == factions = Unused /\ scan = Unused
TimeUnused == frame_arg = Unused /\ time_ret = Unused
OptionUnused == include_bytes = Unused /\ bytes_hex_limit = Unused
WebUnused ==
    /\ replay_files = Unused /\ futures = Unused
    /\ replays_data = Unused /\ request = Unused

\* Python's None, where the value is otherwise a string.
None == "None"

\* A name (of an ability, a target type, a building) is the sequence of the
\* pieces it is spelled with, so that 'x in name', startswith and split are
\* computed on it: "BarracksSpawn" is <<"Barracks", "Spawn">>.  A name that
\* is missing or empty is the empty sequence.
NoName == <<>>

\* marker in name
Contains(name, marker) ==
    \E i \in 0..(Len(name) - Len(marker)) :
        SubSeq(name, i + 1, i + Len(marker)) = marker

\* name.startswith(prefix)
StartsWith(name, prefix) ==
    Len(prefix) <= Len(name) /\ SubSeq(name, 1, Len(prefix)) = prefix

\* ------------------------------------------------------------------------
\* Generic helpers
\* ------------------------------------------------------------------------

Range(s) == {s[i] : i \in DOMAIN s}

SetMin(S) == CHOOSE x \in S : \A y \in S : x <= y

SetMax(S) == CHOOSE x \in S : \A y \in S : x >= y

\* ------------------------------------------------------------------------
\* replay_analyzers.py
\* ------------------------------------------------------------------------

FRAME_RATE_HZ == 1024

\* frame_to_time: "mm:ss" as the pair <<mm, ss>> of the two printed numbers;
\* frame -1 stands for None.
frame_to_time(frame) ==
    IF frame = -1 THEN <<0, 0>>
    ELSE LET total_secs == frame \div FRAME_RATE_HZ
         IN  <<total_secs \div 60, total_secs % 60>>

\* frame / FRAME_RATE_HZ is a division of floats, exact as long as the frame
\* is below 2^53, which every integer of the model is.  For the frame
\* 2^53 + k the quotient is that of the nearest float: between 2^53 and 2^54
\* the floats are the even integers, and a tie goes to the one whose half
\* is even.
NearestFloat(k) ==
    IF k % 2 = 0 THEN k ELSE IF k % 4 = 1 THEN k - 1 ELSE k + 1

\* frame_to_time(2^53 + k), for 0 <= k < 2^31.  2^53 / 1024 = 2^43 seconds
\* are 146601550370 minutes and 8 seconds; the minutes are written as
\* [giga, units] for giga * 10^9 + units.
frame_to_time_past(k) ==
    LET total_secs == 8 + NearestFloat(k) \div FRAME_RATE_HZ
    IN  <<[giga |-> 146, units |-> 601550370 + total_secs \div 60],
          total_secs % 60>>

\* ------------------------------------------------------------------------
\* protobuf.py
\* ------------------------------------------------------------------------

RECURSIVE VarintLoopBigEndian(_, _, _, _)
\* VarintLoop with the 7-bit groups taken most significant first.
VarintLoopBigEndian(bytes, pos, result, shift) ==
    IF pos >= Len(bytes) THEN [value |-> result, pos |-> pos]
    ELSE LET b == bytes[pos + 1]
             r == result * 128 + (b % 128)
         IN  IF b < 128 THEN [value |-> r, pos |-> pos + 1]
             ELSE VarintLoopBigEndian(bytes, pos + 1, r, shift + 7)

RECURSIVE VarintLoop(_, _, _, _)
\* The while loop of decode_varint; pos counts from 0 as in the source.
VarintLoop(bytes, pos, result, shift) ==
    IF pos >= Len(bytes) THEN [value |-> result, pos |-> pos]
    ELSE LET b == bytes[pos + 1]
             r == result + (b % 128) * (2 ^ shift)
         IN  IF b < 128 THEN [value |-> r, pos |-> pos + 1]
             ELSE VarintLoop(bytes, pos + 1, r, shift + 7)

\* decode_varint(data, pos) = (value, pos).
decode_varint(bytes, pos) == VarintLoop(bytes, pos, 0, 0)

\* data[a:b] for 0 <= a <= b <= len(data).
Slice(bytes, a, b) == SubSeq(bytes, a + 1, b)

IsCont(b) == b >= 128 /\ b <= 191

\* The length of the well-formed utf-8 sequence that starts bytes (which is
\* not empty), 0 when there is none: Python's strict utf-8 codec, which
\* rejects overlong forms, surrogates and code points past U+10FFFF.
Utf8SeqLen(bytes) ==
    LET n  == Len(bytes)
        b1 == bytes[1]
        c(i) == i <= n /\ IsCont(bytes[i])
    IN  IF b1 <= 127 THEN 1
        ELSE IF b1 >= 194 /\ b1 <= 223 THEN (IF c(2) THEN 2 ELSE 0)
        ELSE IF b1 = 224
             THEN (IF c(2) /\ bytes[2] >= 160 /\ c(3) THEN 3 ELSE 0)
        ELSE IF b1 = 237
             THEN (IF c(2) /\ bytes[2] <= 159 /\ c(3) THEN 3 ELSE 0)
        ELSE IF b1 >= 225 /\ b1 <= 239 THEN (IF c(2) /\ c(3) THEN 3 ELSE 0)
        ELSE IF b1 = 240
             THEN (IF c(2) /\ bytes[2] >= 144 /\ c(3) /\ c(4) THEN 4 ELSE 0)
        ELSE IF b1 >= 241 /\ b1 <= 243
             THEN (IF c(2) /\ c(3) /\ c(4) THEN 4 ELSE 0)
        ELSE IF b1 = 244
             THEN (IF c(2) /\ bytes[2] <= 143 /\ c(3) /\ c(4) THEN 4 ELSE 0)
        ELSE 0

RECURSIVE Utf8Decodes(_)
\* Whether bytes.decode('utf-8') succeeds.
Utf8Decodes(bytes) ==
    IF bytes = <<>> THEN TRUE
    ELSE LET k == Utf8SeqLen(bytes)
         IN  k # 0 /\ Utf8Decodes(SubSeq(bytes, k + 1, Len(bytes)))

MAX_DEPTH == 100

RECURSIVE decode_message_internal(_, _, _)
RECURSIVE DecodeLoop(_, _, _, _, _)

\* The classification of a length-delimited payload (the try block of
\* _decode_message_internal).  A string is kept as the bytes that encode it.
LengthDelimitedEntry(sub_data, depth) ==
    LET sub == decode_message_internal(sub_data, depth + 1, -1)
    IN  IF ~sub.none /\ sub.consumed = Len(sub_data)
        THEN [t |-> "m", v |-> sub.result]
        ELSE IF Utf8Decodes(sub_data) THEN [t |-> "s", v |-> sub_data]
        ELSE [t |-> "b", v |-> sub_data]

\* One iteration of the while loop of _decode_message_internal with the
\* cursor at pos0 < len(data), result being the fields stored so far, in
\* the order they were stored: a field number that repeats is the source's
\* list under that key.  exit tells that the iteration left the loop (break
\* or return), pos then being the bytes_consumed that is returned;
\* otherwise pos is the cursor of the next iteration.
\* end_group_field -1 stands for None.
DecodeStep(bytes, pos0, result, depth, end_group_field) ==
    LET length == Len(bytes)
        tag_start == pos0
        tg == decode_varint(bytes, pos0)
        pos == tg.pos
        field_number == tg.value \div 8
        wire_type == tg.value % 8
        leave(p) == [exit |-> TRUE, result |-> result, pos |-> p]
        store(entry, p) ==
            [exit |-> FALSE,
             result |-> Append(result, [fn |-> field_number] @@ entry),
             pos |-> p]
    IN  IF wire_type = 4
        THEN IF end_group_field # -1 /\ field_number = end_group_field
             THEN leave(pos)
             ELSE leave(tag_start)
        ELSE IF wire_type = 0
        THEN LET val == decode_varint(bytes, pos)
             IN  store([t |-> "v", v |-> val.value], val.pos)
        ELSE IF wire_type = 1
        THEN IF pos + 8 > length THEN leave(pos)
             ELSE store([t |-> "q", v |-> Slice(bytes, pos, pos + 8)],
                        pos + 8)
        ELSE IF wire_type = 5
        THEN IF pos + 4 > length THEN leave(pos)
             ELSE store([t |-> "f", v |-> Slice(bytes, pos, pos + 4)],
                        pos + 4)
        ELSE IF wire_type = 2
        THEN LET sl == decode_varint(bytes, pos)
                 sub_len == sl.value
                 p2 == sl.pos
             IN  IF p2 + sub_len > length THEN leave(p2)
                 ELSE store(LengthDelimitedEntry(
                                Slice(bytes, p2, p2 + sub_len), depth),
                            p2 + sub_len)
        ELSE IF wire_type = 3
        THEN LET grp == decode_message_internal(
                            Slice(bytes, pos, length), depth + 1,
                            field_number)
             IN  IF ~grp.none
                 THEN store([t |-> "g", v |-> grp.result],
                            pos + grp.consumed)
                 ELSE leave(pos)
        ELSE leave(pos)

\* The while loop of _decode_message_internal from cursor pos0 on, and the
\* return that follows it.
DecodeLoop(bytes, pos0, result, depth, end_group_field) ==
    IF pos0 >= Len(bytes)
    THEN [none |-> FALSE, result |-> result, consumed |-> pos0]
    ELSE LET s == DecodeStep(bytes, pos0, result, depth, end_group_field)
         IN  IF s.exit
             THEN [none |-> FALSE, result |-> s.result, consumed |-> s.pos]
             ELSE DecodeLoop(bytes, s.pos, s.result, depth, end_group_field)

\* _decode_message_internal without its test of depth.
DecodeUncapped(bytes, depth, end_group_field) ==
    DecodeLoop(bytes, 0, <<>>, depth, end_group_field)

\* _decode_message_internal(data, depth, end_group_field) =
\* (decoded_dict, bytes_consumed); none is "decoded_dict is None".
decode_message_internal(bytes, depth, end_group_field) ==
    IF depth > MAX_DEPTH
    THEN [none |-> TRUE, result |-> <<>>, consumed |-> 0]
    ELSE DecodeLoop(bytes, 0, <<>>, depth, end_group_field)

\* decode_message(data): the decoded dict, or None.
decode_message(bytes) ==
    LET r == decode_message_internal(bytes, 0, -1)
    IN  [none |-> r.none, fields |-> r.result]

\* ------------------------------------------------------------------------
\* entity_tracker.py
\* ------------------------------------------------------------------------

\* A collections.Counter as the sequence of its (name, count) items in
\* insertion order, which is the order .items() iterates in.
CounterInc(c, name) ==
    IF \E i \in DOMAIN c : c[i].name = name
    THEN [i \in DOMAIN c |->
            IF c[i].name = name THEN [c[i] EXCEPT !.n = @ + 1] ELSE c[i]]
    ELSE Append(c, [name |-> name, n |-> 1])

CounterGet(c, name) ==
    IF \E i \in DOMAIN c : c[i].name = name
    THEN (CHOOSE e \in Range(c) : e.name = name).n
    ELSE 0

spawn_indicators ==
    (<<"HQ", "Spawn">> :> "HQ") @@ (<<"Shrine", "_Spawn">> :> "Shrine") @@
    (<<"Barracks", "Spawn">> :> "Barracks") @@
    (<<"IronVault", "_Spawn">> :> "IronVault") @@
    (<<"CreationChamber", "_Spawn">> :> "CreationChamber") @@
    (<<"Arcship", "_Spawn">> :> "Arcship") @@
    (<<"Conclave", "_Spawn">> :> "Conclave")

morph_indicators ==
    (<<"Arcship", "Tier", "1", "Land">> :> "Arcship") @@
    (<<"Arcship", "Tier", "1", "Liftoff">> :> "Arcship") @@
    (<<"MorphTo", "Arcship", "Tier", "2">> :> "Arcship") @@
    (<<"MorphTo", "Arcship", "Tier", "3">> :> "Arcship") @@
    (<<"MorphTo", "HQ", "Tier", "2">> :> "HQ") @@
    (<<"MorphTo", "Greater", "Shrine">> :> "Shrine")

construct_indicators ==
    (<<"WorkerConstructAbilityData">> :> "Worker") @@
    (<<"Imp_", "Construct">> :> "Imp") @@
    (<<"Celestial_", "Construct">> :> "Celestial")

\* The first item of counter c, in iteration order, whose name is in one of
\* the two tables, mapped through its table; None when there is none.
FirstIndicator(c, first, second) ==
    LET hits == {i \in DOMAIN c :
                    c[i].name \in DOMAIN first \/ c[i].name \in DOMAIN second}
    IN  IF hits = {} THEN None
        ELSE LET name == c[SetMin(hits)].name
             IN  IF name \in DOMAIN first THEN first[name] ELSE second[name]

\* EntityTracker._infer_type: the entity's inferred_type after the call.
infer_type(entity) ==
    LET used == FirstIndicator(entity.abilities_used,
                               spawn_indicators, morph_indicators)
        cast == FirstIndicator(entity.abilities_cast,
                               spawn_indicators, construct_indicators)
    IN  IF used # None THEN used
        ELSE IF cast # None THEN cast
        ELSE IF 2 * CounterGet(entity.abilities_used, <<"attackData">>)
                    > entity.action_count
             THEN "CombatUnit"
        ELSE entity.inferred_type

\* AbilityLookup.lookup, the capability dictionary (id -> entry) loaded
\* from runtime_session.json: a small table standing for the file's
\* content, which is not part of the sources.
ability_lookup ==
    (11 :> [id |-> <<"Barracks", "Spawn">>, type |-> "AbilityData"]) @@
    (12 :> [id |-> <<"MorphTo", "HQ", "Tier", "2">>, type |-> "AbilityData"]) @@
    (13 :> [id |-> <<"WorkerConstructAbilityData">>, type |-> "AbilityData"]) @@
    (14 :> [id |-> <<"attackData">>, type |-> "AbilityData"]) @@
    (21 :> [id |-> <<"Barracks">>, type |-> "UnitData"]) @@
    (22 :> [id |-> <<"Barracks", "Annex">>, type |-> "UnitData"]) @@
    (23 :> [id |-> <<"Lancer">>, type |-> "AbilityData"])

\* The name record_action counts for an id: the name the action carries,
\* else _get_ability_name(id), else str(id).
TrackedName(name, id) ==
    IF name # NoName THEN name
    ELSE IF id \in DOMAIN ability_lookup THEN ability_lookup[id].id
    ELSE <<ToString(id)>>

\* An action as record_action reads it.  An absent key is 0 for target_id,
\* player_id, target_type and ability_id (record_action treats 0 and None
\* alike), and NoName for target_type_name and ability_name.
NewEntity(action) ==
    [id |-> action.target_id,
     first_seen |-> action.frame,
     first_seen_time |-> action.time,
     last_seen |-> action.frame,
     last_seen_time |-> action.time,
     players |-> {},
     abilities_used |-> <<>>,
     abilities_cast |-> <<>>,
     target_types |-> <<>>,
     action_count |-> 0,
     inferred_type |-> None,
     inferred_owner |-> 0,
     owner_name |-> NoName]

\* The body of record_action past the target_id guard: the entity after it.
TouchEntity(entity, action) ==
    LET e1 == [entity EXCEPT !.last_seen = action.frame,
                             !.last_seen_time = action.time,
                             !.action_count = @ + 1]
        e2 == IF action.player_id # 0
              THEN [e1 EXCEPT !.players = @ \cup {action.player_id}]
              ELSE e1
        used == TrackedName(action.target_type_name, action.target_type)
        e3 == IF action.target_type # 0
              THEN [e2 EXCEPT !.target_types = CounterInc(@, used),
                              !.abilities_used = CounterInc(@, used)]
              ELSE e2
        cast == TrackedName(action.ability_name, action.ability_id)
        e4 == IF action.ability_id # 0
              THEN [e3 EXCEPT !.abilities_cast = CounterInc(@, cast)]
              ELSE e3
    IN  [e4 EXCEPT !.inferred_type = infer_type(e4)]

\* EntityTracker.record_action: the entities map after the call.
record_action(ents, action) ==
    IF action.target_id = 0 THEN ents
    ELSE LET t == action.target_id
             e == IF t \in DOMAIN ents THEN ents[t] ELSE NewEntity(action)
         IN  (t :> TouchEntity(e, action)) @@ ents

\* The order in which CPython iterates a set of player ids: a small
\* non-negative int hashes to itself and sits in the slot of that number
\* in a table of 8, so ids below 8 come out in increasing order.
SetOrder(S) ==
    LET RECURSIVE Asc(_)
        Asc(R) == IF R = {} THEN <<>>
                  ELSE <<SetMin(R)>> \o Asc(R \ {SetMin(R)})
    IN  Asc(S)

\* player_counts of infer_owners: one count per member of entity['players'],
\* which is a set, so every actor counts once however often they acted.
player_counts(entity) == [pid \in entity.players |-> 1]

\* Counter.most_common(1)[0][0]: the key with the greatest count, the one
\* inserted first (first of the set's iteration) among equal counts.
most_common(counts, order) ==
    LET best == SetMax({counts[pid] : pid \in DOMAIN counts})
        at == SetMin({i \in DOMAIN order : counts[order[i]] = best})
    IN  order[at]

\* players.get(pid, f'P{pid}')
OwnerName(pl, pid) ==
    IF pid \in DOMAIN pl THEN pl[pid] ELSE <<"P", ToString(pid)>>

\* EntityTracker.infer_owners: the entities map after the call.
infer_owners(ents, pl) ==
    [t \in DOMAIN ents |->
        IF ents[t].players # {}
        THEN LET pid == most_common(player_counts(ents[t]),
                                    SetOrder(ents[t].players))
             IN  [ents[t] EXCEPT !.inferred_owner = pid,
                                 !.owner_name = OwnerName(pl, pid)]
        ELSE ents[t]]

\* ------------------------------------------------------------------------
\* parse_sgreplay.py: the analyzers
\* ------------------------------------------------------------------------

\* The reserved actor id of the system / neutral actor.
SENTINEL == 64

\* The frame of an action or event whose frame is None (the record had no
\* tag 1).
NoFrame == -1

\* frame or 0
FrameOrZero(frame) == IF frame = NoFrame THEN 0 ELSE frame

\* The timeline left in the order in which its entries were appended.
Unsorted(events) == events

\* list.sort(key=lambda b: b['frame'] or 0), which is stable: e goes after
\* every element whose key is not greater.
RECURSIVE SortByFrame(_)
SortByFrame(events) ==
    IF events = <<>> THEN <<>>
    ELSE LET n == Len(events)
             e == events[n]
             sorted == SortByFrame(SubSeq(events, 1, n - 1))
             k == Cardinality({i \in DOMAIN sorted :
                                 FrameOrZero(sorted[i].frame) <= FrameOrZero(e.frame)})
         IN  SubSeq(sorted, 1, k) \o <<e>> \o SubSeq(sorted, k + 1, n - 1)

\* BUILDING_LOOKUP, the content of buildings.json (type id -> entry) when
\* the file is there; the module-level dict is empty when it is not.
BUILDING_LOOKUP ==
    (21 :> [id |-> <<"Barracks">>]) @@ (22 :> [id |-> <<"Barracks", "Annex">>])

\* The entries of BUILDING_FRIENDLY_NAMES whose key a build action of the
\* model can carry.
BUILDING_FRIENDLY_NAMES ==
    (<<"MechBay">> :> <<"Mech", " ", "Bay">>) @@
    (<<"HQ", "Tier", "1">> :> <<"Command", " ", "Post">>) @@
    (<<"Lesser", "Shrine">> :> <<"Shrine", " (", "Lesser", ")">>)

BUILDING_BASE_TYPES == {"UnitData", "ResourceData", "ResourceGeneratorData"}

SPAWN_TO_BUILDING ==
    (<<"Barracks", "Spawn">> :> <<"Barracks">>) @@
    (<<"MechBay", "Spawn">> :> <<"Mech", " ", "Bay">>) @@
    (<<"Hangar", "Bay", "Spawn">> :> <<"Hangar", " ", "Bay">>) @@
    (<<"Atlas", "Bay", "Spawn">> :> <<"Atlas", " ", "Bay">>) @@
    (<<"HQ", "Spawn">> :> <<"Command", " ", "Post">>) @@
    (<<"Warforge", "Spawn">> :> <<"Warforge">>) @@
    (<<"CreationChamber", "_Spawn">> :> <<"Creation", " ", "Chamber">>) @@
    (<<"Mainframe", "_Spawn">> :> <<"Mainframe">>) @@
    (<<"Arcship", "_Spawn">> :> <<"Arcship">>) @@
    (<<"MorphCore", "_Spawn">> :> <<"Morph", " ", "Core">>) @@
    (<<"Shrine", "_Spawn">> :> <<"Shrine">>) @@
    (<<"Conclave", "_Spawn">> :> <<"Conclave">>) @@
    (<<"IronVault", "_Spawn">> :> <<"Iron", " ", "Vault">>) @@
    (<<"Twilight", "Spire", "_Spawn">> :> <<"Twilight", " ", "Spire">>) @@
    (<<"Stormgate", "_Spawn">> :> <<"Stormgate">>)

\* The ids are kept as their decimal digits (one is past 2^31); "None" is
\* the None of the two starting buildings and of a name not in the table.
BUILDING_NAME_TO_ID ==
    (<<"Barracks">> :> "597044510") @@
    (<<"Mech", " ", "Bay">> :> "3945975384") @@
    (<<"Command", " ", "Post">> :> "1393406673") @@
    (<<"Arcship">> :> None) @@ (<<"Stormgate">> :> None)

StartingBuildings ==
    {<<"Command", " ", "Post">>, <<"Arcship">>, <<"Stormgate">>}

\* name.split(' (')[0]
BaseName(name) ==
    LET cuts == {i \in DOMAIN name : name[i] = " ("}
    IN  IF cuts = {} THEN name ELSE SubSeq(name, 1, SetMin(cuts) - 1)

\* An action as get_building_orders reads it.  Absent keys: build_type 0,
\* ability_pos_index 0 (None), x and y -1 (None), names NoName.

\* The name a build action is listed under (raw_name), given whether
\* buildings.json was loaded.
RawBuildName(a, has_buildings) ==
    IF has_buildings THEN BUILDING_LOOKUP[a.build_type].id
    ELSE IF a.build_type_name # NoName THEN a.build_type_name
    ELSE <<ToString(a.build_type)>>

\* The filters of the first loop of get_building_orders: whether action a
\* is taken as the placement of a structure.
PassesBuildFilters(a, has_buildings) ==
    /\ a.type = "COMMAND"
    /\ a.build_type # 0
    /\ a.player_id # 0 /\ a.player_id # SENTINEL
    /\ a.ability_name \notin
          {<<"attackData">>, <<"CloneCreation">>, <<"CallToFightBaseFaction">>}
    /\ IF has_buildings THEN a.build_type \in DOMAIN BUILDING_LOOKUP
       ELSE ~ ( /\ a.x = -1
                /\ a.build_type \in DOMAIN ability_lookup
                /\ ability_lookup[a.build_type].type \notin BUILDING_BASE_TYPES )

DedupKey(a) == <<a.player_id, a.ability_pos_index, a.build_type>>

BuildEvent(a, has_buildings) ==
    LET raw_name == RawBuildName(a, has_buildings)
    IN  [frame |-> a.frame, time |-> a.time, building_type |-> a.build_type,
         building_name |-> IF raw_name \in DOMAIN BUILDING_FRIENDLY_NAMES
                           THEN BUILDING_FRIENDLY_NAMES[raw_name]
                           ELSE raw_name,
         x |-> a.x, y |-> a.y, inferred |-> FALSE]

\* The first loop of get_building_orders from action i on: the explicit
\* build events in the order they are appended, each with its player.
RECURSIVE ExplicitLoop(_, _, _, _)
ExplicitLoop(acts, i, seen_buildings, has_buildings) ==
    IF i > Len(acts) THEN <<>>
    ELSE LET a == acts[i]
         IN  IF PassesBuildFilters(a, has_buildings)
                   /\ DedupKey(a) \notin seen_buildings
             THEN <<[pid |-> a.player_id, b |-> BuildEvent(a, has_buildings)]>>
                    \o ExplicitLoop(acts, i + 1,
                                    seen_buildings \cup {DedupKey(a)},
                                    has_buildings)
             ELSE ExplicitLoop(acts, i + 1, seen_buildings, has_buildings)

\* The elements of tagged list l that belong to pid, in order.
RECURSIVE OfPlayer(_, _)
OfPlayer(l, pid) ==
    IF l = <<>> THEN <<>>
    ELSE (IF Head(l).pid = pid THEN <<Head(l).b>> ELSE <<>>)
            \o OfPlayer(Tail(l), pid)

\* player_buildings[pid] after the sort of each player's list.
PlayerBuildings(acts, has_buildings, pid) ==
    SortByFrame(OfPlayer(ExplicitLoop(acts, 1, {}, has_buildings), pid))

\* Whether action a is counted as the use of a spawn capability.
IsSpawnUse(a) ==
    /\ a.type = "COMMAND"
    /\ a.player_id # 0 /\ a.player_id # SENTINEL
    /\ a.target_type_name \in DOMAIN SPAWN_TO_BUILDING

\* player_spawns[pid]: the implied buildings in the order their first spawn
\* was met, each with the least frame of its spawns.
RECURSIVE PlayerSpawns(_, _, _, _)
PlayerSpawns(acts, i, pid, spawns) ==
    IF i > Len(acts) THEN spawns
    ELSE LET a == acts[i]
             name == SPAWN_TO_BUILDING[a.target_type_name]
             at == {k \in DOMAIN spawns : spawns[k].name = name}
         IN  IF ~(IsSpawnUse(a) /\ a.player_id = pid)
             THEN PlayerSpawns(acts, i + 1, pid, spawns)
             ELSE IF at = {}
             THEN PlayerSpawns(acts, i + 1, pid,
                      Append(spawns, [name |-> name,
                                      frame |-> FrameOrZero(a.frame)]))
             ELSE PlayerSpawns(acts, i + 1, pid,
                      [k \in DOMAIN spawns |->
                          IF k \in at /\ FrameOrZero(a.frame) < spawns[k].frame
                          THEN [spawns[k] EXCEPT !.frame = FrameOrZero(a.frame)]
                          ELSE spawns[k]])

\* Whether the loop over a player's spawns synthesizes an entry for sp,
\* built being the player's explicit build events (sorted by frame).  The
\* first build event of the like name gives earliest_build_frame, which is
\* None when that event has no frame.
InfersBuilding(sp, built) ==
    LET built_names == {built[k].building_name : k \in DOMAIN built}
                         \cup {BaseName(built[k].building_name) : k \in DOMAIN built}
        like == {k \in DOMAIN built :
                    \/ built[k].building_name = sp.name
                    \/ StartsWith(built[k].building_name, sp.name)}
    IN  /\ sp.name \notin built_names
        /\ sp.name \notin StartingBuildings
        /\ \/ like = {}
           \/ built[SetMin(like)].frame = NoFrame
           \/ sp.frame < built[SetMin(like)].frame

InferredEvent(sp) ==
    [frame |-> sp.frame,
     time |-> frame_to_time(sp.frame),
     building_type |-> IF sp.name \in DOMAIN BUILDING_NAME_TO_ID
                       THEN BUILDING_NAME_TO_ID[sp.name] ELSE None,
     building_name |-> sp.name \o <<" [Inferred]">>,
     x |-> -1, y |-> -1, inferred |-> TRUE]

RECURSIVE InferredBuildings(_, _)
InferredBuildings(spawns, built) ==
    IF spawns = <<>> THEN <<>>
    ELSE (IF InfersBuilding(Head(spawns), built)
          THEN <<InferredEvent(Head(spawns))>> ELSE <<>>)
            \o InferredBuildings(Tail(spawns), built)

\* SGReplayParser.get_building_orders: player id -> timeline.
get_building_orders(acts, has_buildings) ==
    LET pids == {acts[i].player_id : i \in DOMAIN acts}
        built(pid) == PlayerBuildings(acts, has_buildings, pid)
        inferred(pid) ==
            InferredBuildings(PlayerSpawns(acts, 1, pid, <<>>), built(pid))
        keys == {pid \in pids : built(pid) # <<>> \/ inferred(pid) # <<>>}
    IN  [pid \in keys |-> SortByFrame(built(pid) \o inferred(pid))]

\* ------------------------------------------------------------------------
\* replay_analyzers.py / parse_sgreplay.py: upgrades, rewards, production.
\* An action as these read it: ability_id 0 and ability_name NoName when the
\* key is absent.
\* ------------------------------------------------------------------------

UPGRADE_KEYWORDS ==
    {<<"Research">>, <<"Upgrade">>, <<"MorphTo">>, <<"Tier", "2">>, <<"Tier", "3">>}

\* The entries of UPGRADE_FRIENDLY_NAMES whose key an action of the model can
\* carry.
UPGRADE_FRIENDLY_NAMES ==
    (<<"MorphTo", "HQ", "Tier", "2">> :> <<"Upgrade to HQ Tier 2">>) @@
    (<<"Hellforge", "_", "Research">> :> <<"Hellforge Research">>)

\* 'StormgateAbility', the prefix of the reward abilities
REWARD_PREFIX == <<"StormgateAbility">>

STORMGATE_REWARD_NAMES ==
    (<<"StormgateAbility", "Create", "Tier", "2", "Exploder">>
        :> <<"Tier 2: Exploder">>)

\* 'not pid or pid == 64' fails: the action has an actor that is a player.
OfAPlayer(a) == a.player_id # 0 /\ a.player_id # SENTINEL

\* The filter of the upgrade loop with the reward test left out.
IsUpgradeOrReward(a) ==
    /\ a.type = "COMMAND"
    /\ OfAPlayer(a)
    /\ \E kw \in UPGRADE_KEYWORDS : Contains(a.ability_name, kw)

\* The filter of the upgrade loop: is_upgrade and not is_stormgate.
IsUpgrade(a) ==
    /\ a.type = "COMMAND"
    /\ OfAPlayer(a)
    /\ \E kw \in UPGRADE_KEYWORDS : Contains(a.ability_name, kw)
    /\ ~StartsWith(a.ability_name, REWARD_PREFIX)

\* name.replace('_', ' ').replace('MorphTo', 'Upgrade to ')
RECURSIVE CleanUpgradeName(_)
CleanUpgradeName(name) ==
    IF name = <<>> THEN <<>>
    ELSE <<CASE Head(name) = "_" -> " "
             [] Head(name) = "MorphTo" -> "Upgrade to "
             [] OTHER -> Head(name)>> \o CleanUpgradeName(Tail(name))

UpgradeEvent(a) ==
    [frame |-> a.frame, time |-> a.time, upgrade_id |-> a.ability_id,
     upgrade_name |-> IF a.ability_name \in DOMAIN UPGRADE_FRIENDLY_NAMES
                      THEN UPGRADE_FRIENDLY_NAMES[a.ability_name]
                      ELSE CleanUpgradeName(a.ability_name)]

\* The loop of extract_player_upgrades from action i on: the events in the
\* order they are appended, each with its player.
RECURSIVE UpgradeLoop(_, _, _)
UpgradeLoop(acts, i, seen_upgrades) ==
    IF i > Len(acts) THEN <<>>
    ELSE LET a == acts[i]
             dedup_key == <<a.player_id, a.ability_id>>
         IN  IF IsUpgrade(a) /\ dedup_key \notin seen_upgrades
             THEN <<[pid |-> a.player_id, b |-> UpgradeEvent(a)]>>
                    \o UpgradeLoop(acts, i + 1, seen_upgrades \cup {dedup_key})
             ELSE UpgradeLoop(acts, i + 1, seen_upgrades)

\* The per-player dict of a tagged event list, each list sorted by frame.
Timelines(tagged) ==
    [pid \in {tagged[i].pid : i \in DOMAIN tagged} |->
        SortByFrame(OfPlayer(tagged, pid))]

\* replay_analyzers.extract_player_upgrades
extract_player_upgrades(acts) == Timelines(UpgradeLoop(acts, 1, {}))

\* SGReplayParser.get_player_upgrades, the same code on self.actions
get_player_upgrades(acts) == Timelines(UpgradeLoop(acts, 1, {}))

\* The filter of the reward loop.
IsReward(a) ==
    /\ a.type = "COMMAND"
    /\ OfAPlayer(a)
    /\ StartsWith(a.ability_name, REWARD_PREFIX)

\* The name built when STORMGATE_REWARD_NAMES has none: 'StormgateAbility
\* Create' removed, then 'Tier(\d+)(.+)' rewritten to 'Tier {d}: {rest}'.
\* The digits of a tier are one piece of the name.
RewardName(name) ==
    LET clean == IF StartsWith(name, <<"StormgateAbility", "Create">>)
                 THEN SubSeq(name, 3, Len(name)) ELSE name
    IN  IF Len(clean) >= 3 /\ clean[1] = "Tier"
            /\ clean[2] \in {"1", "2", "3", "9"}
        THEN <<"Tier ", clean[2], ": ">> \o SubSeq(clean, 3, Len(clean))
        ELSE clean

RewardEvent(a) ==
    [frame |-> a.frame, time |-> a.time, reward_id |-> a.ability_id,
     reward_name |-> IF a.ability_name \in DOMAIN STORMGATE_REWARD_NAMES
                     THEN STORMGATE_REWARD_NAMES[a.ability_name]
                     ELSE RewardName(a.ability_name)]

RECURSIVE RewardLoop(_, _, _)
RewardLoop(acts, i, seen_rewards) ==
    IF i > Len(acts) THEN <<>>
    ELSE LET a == acts[i]
             dedup_key == <<a.player_id, a.ability_id>>
         IN  IF IsReward(a) /\ dedup_key \notin seen_rewards
             THEN <<[pid |-> a.player_id, b |-> RewardEvent(a)]>>
                    \o RewardLoop(acts, i + 1, seen_rewards \cup {dedup_key})
             ELSE RewardLoop(acts, i + 1, seen_rewards)

\* replay_analyzers.extract_stormgate_rewards
extract_stormgate_rewards(acts) == Timelines(RewardLoop(acts, 1, {}))

\* SGReplayParser.get_stormgate_rewards, the same code on self.actions
get_stormgate_rewards(acts) == Timelines(RewardLoop(acts, 1, {}))

\* The entries of SPAWN_FRIENDLY_NAMES whose key an action of the model can
\* carry.
SPAWN_FRIENDLY_NAMES ==
    (<<"Barracks", "Spawn">> :> <<"Barracks">>) @@
    (<<"HQ", "Spawn">> :> <<"Command Post">>)

\* 'Spawn' in ability_name or 'spawn' in ability_name
IsProduction(a) ==
    /\ a.type = "COMMAND"
    /\ OfAPlayer(a)
    /\ \E i \in DOMAIN a.ability_name :
          a.ability_name[i] \in {"Spawn", "_Spawn", "spawn"}

\* name.replace('_Spawn', '').replace('Spawn', '').replace('_', ' ')
RECURSIVE CleanSpawnName(_)
CleanSpawnName(name) ==
    IF name = <<>> THEN <<>>
    ELSE (CASE Head(name) \in {"_Spawn", "Spawn"} -> <<>>
            [] Head(name) = "_" -> <<" ">>
            [] OTHER -> <<Head(name)>>) \o CleanSpawnName(Tail(name))

ProductionEvent(a) ==
    [frame |-> a.frame, time |-> a.time, ability_id |-> a.ability_id,
     building |-> IF a.ability_name \in DOMAIN SPAWN_FRIENDLY_NAMES
                  THEN SPAWN_FRIENDLY_NAMES[a.ability_name]
                  ELSE IF CleanSpawnName(a.ability_name) # <<>>
                  THEN CleanSpawnName(a.ability_name)
                  ELSE a.ability_name]

RECURSIVE ProductionLoop(_, _)
ProductionLoop(acts, i) ==
    IF i > Len(acts) THEN <<>>
    ELSE (IF IsProduction(acts[i])
          THEN <<[pid |-> acts[i].player_id, b |-> ProductionEvent(acts[i])]>>
          ELSE <<>>) \o ProductionLoop(acts, i + 1)

\* SGReplayParser.get_unit_production
get_unit_production(acts) == Timelines(ProductionLoop(acts, 1))

\* ---- Specification of the entity tracker ------------------------------

MaxRecorded == 4

TargetIds == {0, 1, 2}

EntityFrames == {0, 1, 2}

\* The actions the tracker is fed: COMMAND actions as _extract_actions
\* builds them, with the time the projector derives from the frame.
EntityActions ==
    {[target_id |-> t, frame |-> f, time |-> frame_to_time(f),
      player_id |-> p, target_type |-> tt.id, target_type_name |-> tt.name,
      ability_id |-> 0, ability_name |-> NoName] :
        t \in TargetIds, f \in EntityFrames, p \in {1, 2},
        tt \in {[id |-> 0, name |-> NoName],
                [id |-> 14, name |-> <<"attackData">>]}}

InitEntity ==
    /\ pc = "record_action"
    /\ entities = <<>>
    /\ log = <<>>
    /\ DecodeUnused /\ BuildUnused /\ ParseUnused /\ FactionUnused /\ TimeUnused
    /\ OptionUnused /\ WebUnused

RecordAction ==
    /\ pc = "record_action"
    /\ Len(log) < MaxRecorded
    /\ \E action \in EntityActions :
          /\ entities' = record_action(entities, action)
          /\ log' = Append(log, action)
    /\ UNCHANGED <<pc, decodeVars, buildVars, parseVars, factionVars, timeVars,
                   optionVars, webVars>>

\* The player map handed to infer_owners: slot 1 is named, slot 2 is not.
OwnerPlayers == (1 :> <<"Alice">>)

\* parse() calls infer_owners once, after the last record_action.
InferOwners ==
    /\ pc = "record_action"
    /\ entities' = infer_owners(entities, OwnerPlayers)
    /\ pc' = "owners_inferred"
    /\ UNCHANGED <<log, decodeVars, buildVars, parseVars, factionVars, timeVars,
                   optionVars, webVars>>

NextEntity == RecordAction \/ InferOwners

SpecEntity == InitEntity /\ [][NextEntity]_vars

\* The frames of the recorded actions that reference target t.
FramesOn(t) == {log[i].frame : i \in {j \in DOMAIN log : log[j].target_id = t}}

CountOn(t) == Cardinality({j \in DOMAIN log : log[j].target_id = t})

\* C1: after any sequence of recorded actions (in any frame order), every
\* entity's action_count is the number of actions that reference it, its
\* first_seen the minimum and its last_seen the maximum of their frames.
C1_EntityMinMax ==
    \A t \in DOMAIN entities :
        /\ entities[t].action_count = CountOn(t)
        /\ entities[t].first_seen = SetMin(FramesOn(t))
        /\ entities[t].last_seen = SetMax(FramesOn(t))

\* How many of the recorded actions on target t actor p made.
ActionsBy(t, p) ==
    Cardinality({j \in DOMAIN log :
                    log[j].target_id = t /\ log[j].player_id = p})

\* The actors with the greatest number of actions on target t.
TopActors(t) ==
    {p \in entities[t].players :
        \A q \in entities[t].players : ActionsBy(t, q) <= ActionsBy(t, p)}

\* C11: after any sequence of record_action calls followed by infer_owners,
\* each entity's inferred_owner is the actor with the greatest number of
\* actions on that entity, the lowest slot among those tied for it.
C11_OwnerMostActions ==
    pc = "owners_inferred" =>
        \A t \in DOMAIN entities :
            entities[t].players # {} =>
                entities[t].inferred_owner = SetMin(TopActors(t))

\* ---- Specification of the message tree decoder -------------------------

MaxBytes == 4

\* Tags 0x08 (field 1 varint), 0x0A (field 1 length-delimited), 0x04 (end
\* group), 0x00 (field 0 varint) and 0x06 (wire type 6), small lengths, 'A',
\* and the utf-8 bytes of U+00E9 with a stray continuation byte.
DecodeBytes == {0, 1, 2, 4, 6, 8, 10, 65, 128, 169, 195}

RECURSIVE ByteStrings(_)
ByteStrings(n) ==
    IF n = 0 THEN {<<>>}
    ELSE LET shorter == ByteStrings(n - 1)
         IN  shorter \cup {Append(s, b) : s \in {x \in shorter : Len(x) = n - 1},
                                          b \in DecodeBytes}

InitDecode ==
    /\ pc = "decode"
    /\ data \in ByteStrings(MaxBytes)
    /\ offset = 0
    /\ decoded = Unused
    /\ call = Unused
    /\ EntityUnused /\ BuildUnused /\ ParseUnused /\ FactionUnused /\ TimeUnused
    /\ OptionUnused /\ WebUnused

DecodeMessage ==
    /\ pc = "decode"
    /\ decoded' = decode_message(data)
    /\ pc' = "decoded"
    /\ UNCHANGED <<data, offset, call, entityVars, buildVars, parseVars,
                   factionVars, timeVars,
                   optionVars, webVars>>

NextDecode == DecodeMessage

SpecDecode == InitDecode /\ [][NextDecode]_vars

RECURSIVE AllEntries(_)
\* Every leaf of a decoded tree, at any nesting level.
AllEntries(fields) ==
    Range(fields) \cup
    UNION {AllEntries(e.v) : e \in {x \in Range(fields) : x.t \in {"m", "g"}}}

\* The code point of the well-formed utf-8 sequence of k bytes that starts
\* bytes.
CodePoint(bytes, k) ==
    IF k = 1 THEN bytes[1]
    ELSE IF k = 2 THEN (bytes[1] % 32) * 64 + (bytes[2] % 64)
    ELSE IF k = 3
         THEN (bytes[1] % 16) * 4096 + (bytes[2] % 64) * 64 + (bytes[3] % 64)
    ELSE (bytes[1] % 8) * 262144 + (bytes[2] % 64) * 4096
            + (bytes[3] % 64) * 64 + (bytes[4] % 64)

\* Printable, or tab / newline / carriage return / space: the C0 and C1
\* controls and DEL are not printable, the characters past U+00A0 the model
\* draws are.
PrintableOrSpace(cp) ==
    \/ cp \in {9, 10, 13}
    \/ cp >= 32 /\ cp <= 126
    \/ cp > 160

RECURSIVE AllPrintable(_)
AllPrintable(bytes) ==
    IF bytes = <<>> THEN TRUE
    ELSE LET k == Utf8SeqLen(bytes)
         IN  /\ k # 0
             /\ PrintableOrSpace(CodePoint(bytes, k))
             /\ AllPrintable(SubSeq(bytes, k + 1, Len(bytes)))

ConsumesAll(payload) ==
    LET r == decode_message_internal(payload, 1, -1)
    IN  ~r.none /\ r.consumed = Len(payload)

\* C3: a length-delimited payload is a Message exactly when the recursive
\* decode consumes all its bytes; otherwise it is a String only if it
\* decodes as utf-8 and every character is printable or whitespace;
\* otherwise it is Bytes.
C3_Classification ==
    pc = "decoded" /\ ~decoded.none =>
        \A e \in AllEntries(decoded.fields) :
            /\ e.t = "s" => /\ ~ConsumesAll(e.v)
                            /\ Utf8Decodes(e.v) /\ AllPrintable(e.v)
            /\ e.t = "b" => /\ ~ConsumesAll(e.v)
                            /\ ~(Utf8Decodes(e.v) /\ AllPrintable(e.v))

\* C21: a tag whose field number is 0, or is at or above the ceiling of
\* 50,000, ends the parsing of the current message, so no decoded tree, at
\* any nesting level, holds a leaf under field number 0 or under a field
\* number of 50,000 or more.
C21_FieldNumberBounds ==
    pc = "decoded" /\ ~decoded.none =>
        \A e \in AllEntries(decoded.fields) :
            e.fn # 0 /\ e.fn < 50000

\* data opens with a length-delimited field (a one-byte tag and a one-byte
\* length) whose payload lies within data.
OpensWithPayload ==
    /\ Len(data) >= 2
    /\ data[1] < 128 /\ data[1] % 8 = 2
    /\ data[2] < 128 /\ 2 + data[2] <= Len(data)

FirstPayload == Slice(data, 2, 2 + data[2])

AfterFirstPayload == Slice(data, 2 + data[2], Len(data))

\* The first tag of the payload has wire type 6 or 7, so the recursive
\* decode meets an unknown wire type at once.
UnknownWireFirst(payload) ==
    payload # <<>> /\ payload[1] < 128 /\ payload[1] % 8 \in {6, 7}

\* C22: when the recursive decode of a length-delimited payload meets an
\* unknown wire type, also as the last tag of the payload, the payload is
\* not classified as a Message: its leaf is a non-Message leaf and the
\* enclosing message goes on to decode the fields that follow it.
C22_UnknownWireDegrades ==
    pc = "decoded" /\ ~decoded.none /\ OpensWithPayload
        /\ UnknownWireFirst(FirstPayload) =>
        /\ decoded.fields # <<>>
        /\ decoded.fields[1].t # "m"
        /\ Len(decoded.fields) =
               1 + Len(decode_message(AfterFirstPayload).fields)

\* ---- Specification of decode_varint ------------------------------------

MaxVarintBytes == 3

\* 0x00, 0x01, 0x02 and 0x7F end a varint; 0x80, 0xAC and 0xFF continue it.
VarintBytes == {0, 1, 2, 127, 128, 172, 255}

RECURSIVE VarintStrings(_)
VarintStrings(n) ==
    IF n = 0 THEN {<<>>}
    ELSE LET shorter == VarintStrings(n - 1)
         IN  shorter \cup {Append(x, b) : x \in {y \in shorter : Len(y) = n - 1},
                                          b \in VarintBytes}

\* A slice and an offset into it; the offset may be the end of the slice.
InitVarint ==
    /\ pc = "decode_varint"
    /\ data \in VarintStrings(MaxVarintBytes)
    /\ offset \in 0..MaxVarintBytes
    /\ offset <= Len(data)
    /\ decoded = Unused
    /\ call = Unused
    /\ EntityUnused /\ BuildUnused /\ ParseUnused /\ FactionUnused /\ TimeUnused
    /\ OptionUnused /\ WebUnused

DecodeVarint ==
    /\ pc = "decode_varint"
    /\ decoded' = decode_varint(data, offset)
    /\ pc' = "varint_decoded"
    /\ UNCHANGED <<data, offset, call, entityVars, buildVars, parseVars,
                   factionVars, timeVars,
                   optionVars, webVars>>

NextVarint == DecodeVarint

SpecVarint == InitVarint /\ [][NextVarint]_vars

\* The base-128 varint of n: 7 bits a byte, least significant group first,
\* the high bit set on every byte but the last.
RECURSIVE EncodeVarint(_)
EncodeVarint(n) ==
    IF n < 128 THEN <<n>> ELSE <<128 + (n % 128)>> \o EncodeVarint(n \div 128)

\* The number of bits of n (0 for n = 0).
RECURSIVE BitLength(_)
BitLength(n) == IF n = 0 THEN 0 ELSE 1 + BitLength(n \div 2)

\* max(1, ceil(bits(n) / 7))
VarintSize(n) ==
    LET groups == (BitLength(n) + 6) \div 7
    IN  IF groups < 1 THEN 1 ELSE groups

\* 0, 1, 127, 300 and, for every size k, the least and the greatest number
\* of k groups.
VarintValues ==
    {0, 1, 127, 300}
    \cup {128 ^ k : k \in 1..(MaxVarintBytes - 1)}
    \cup {128 ^ k - 1 : k \in 1..MaxVarintBytes}

\* The 1-based index of the last byte read from offset: the first byte at
\* or after the offset whose high bit is clear, else the last byte.
LastRead ==
    LET ends == {i \in (offset + 1)..Len(data) : data[i] < 128}
    IN  IF ends = {} THEN Len(data) ELSE SetMin(ends)

\* The 7-bit groups of data[from..to], the first the least significant.
RECURSIVE GroupsValue(_, _)
GroupsValue(from, to) ==
    IF from > to THEN 0
    ELSE (data[from] % 128) + 128 * GroupsValue(from + 1, to)

\* C13: decode_varint, started at an offset inside the slice, reads 7-bit
\* groups least significant first, stops after the first byte whose high
\* bit is clear or at the end of the slice, and returns the value with the
\* offset just past the last byte read; the varint of n decodes to n and
\* consumes max(1, ceil(bits(n) / 7)) bytes.
C13_Varint ==
    pc = "varint_decoded" /\ offset < Len(data) =>
        /\ decoded.pos = LastRead
        /\ decoded.value = GroupsValue(offset + 1, LastRead)
        /\ \A n \in VarintValues :
              LET enc == EncodeVarint(n)
              IN  /\ offset + Len(enc) <= Len(data)
                  /\ Slice(data, offset, offset + Len(enc)) = enc
                  => /\ decoded.value = n
                     /\ decoded.pos = offset + VarintSize(n)

\* 300 is decoded from its two bytes 0xAC 0x02 at offset 1.
C13_Witness ==
    /\ pc = "varint_decoded"
    /\ offset = 1
    /\ Len(data) = 3
    /\ Slice(data, 1, 3) = EncodeVarint(300)
    /\ decoded = [value |-> 300, pos |-> 3]

\* ---- Specification of the build order analyzer -------------------------

MaxActions == 3

\* A COMMAND action that places a structure.
BuildAction(p, f, pos, bt, ability, x) ==
    [type |-> "COMMAND", player_id |-> p, frame |-> f, time |-> frame_to_time(f),
     build_type |-> bt, build_type_name |-> ability_lookup[bt].id,
     ability_pos_index |-> pos, ability_name |-> ability,
     target_type_name |-> NoName, x |-> x, y |-> x]

\* A COMMAND action that uses the capability named tt on a target.
SpawnAction(p, f, tt) ==
    [type |-> "COMMAND", player_id |-> p, frame |-> f, time |-> frame_to_time(f),
     build_type |-> 0, build_type_name |-> NoName,
     ability_pos_index |-> 0, ability_name |-> NoName,
     target_type_name |-> tt, x |-> -1, y |-> -1]

BuildFrames == {1024, 2048}

\* Placements of a Barracks (21) by two players at two build slots, of a
\* Barracks Annex (22), of a unit (23), an attack order, a placement by the
\* sentinel, and uses of BarracksSpawn and HQSpawn.
BuildInputs ==
    {BuildAction(p, f, pos, 21, NoName, 5) :
        p \in {1, 2}, f \in BuildFrames, pos \in {1, 2}}
    \cup {BuildAction(1, f, 1, 22, NoName, 5) : f \in BuildFrames}
    \cup {BuildAction(1, 1024, 1, 23, NoName, -1),
          BuildAction(1, 1024, 1, 21, <<"attackData">>, 5),
          BuildAction(SENTINEL, 1024, 1, 21, NoName, 5)}
    \cup {SpawnAction(p, f, <<"Barracks", "Spawn">>) :
            p \in {1, 2}, f \in BuildFrames}
    \cup {SpawnAction(1, 1024, <<"HQ", "Spawn">>),
          SpawnAction(SENTINEL, 1024, <<"Barracks", "Spawn">>)}

InitBuild ==
    /\ pc = "extract_actions"
    /\ actions = <<>>
    /\ buildings_json \in BOOLEAN
    /\ building_orders = Unused /\ RollupUnused
    /\ EntityUnused /\ DecodeUnused /\ ParseUnused /\ FactionUnused /\ TimeUnused
    /\ OptionUnused /\ WebUnused

\* _extract_actions appends one action to the list.
AppendAction ==
    /\ pc = "extract_actions"
    /\ Len(actions) < MaxActions
    /\ \E a \in BuildInputs : actions' = Append(actions, a)
    /\ UNCHANGED <<pc, buildings_json, building_orders, rollupVars,
                   entityVars, decodeVars, parseVars, factionVars, timeVars,
                   optionVars, webVars>>

GetBuildingOrders ==
    /\ pc = "extract_actions"
    /\ building_orders' = get_building_orders(actions, buildings_json)
    /\ pc' = "analyzed"
    /\ UNCHANGED <<actions, buildings_json, rollupVars, entityVars, decodeVars,
                   parseVars, factionVars, timeVars,
                   optionVars, webVars>>

NextBuild == AppendAction \/ GetBuildingOrders

SpecBuild == InitBuild /\ [][NextBuild]_vars

\* The actions of list acts that pass the structure filters.
Placements == {i \in DOMAIN actions : PassesBuildFilters(actions[i], buildings_json)}

\* The least frame among the placements that share the key of placement i.
GroupFrame(i) ==
    SetMin({actions[j].frame :
              j \in {k \in Placements : DedupKey(actions[k]) = DedupKey(actions[i])}})

\* The explicit events of player p's timeline, as positions in it.
ExplicitEvents(p) ==
    IF p \in DOMAIN building_orders
    THEN {k \in DOMAIN building_orders[p] : ~building_orders[p][k].inferred}
    ELSE {}

\* C2: for every group of placements that share (actor, position_index,
\* build_type) exactly one explicit event is emitted, and it carries the
\* smallest frame of the group, whatever the order of the action list: per
\* actor, build type and frame, the explicit events are as many as the groups
\* whose smallest frame it is.
C2_DedupEarliest ==
    pc = "analyzed" =>
        \A i \in Placements :
            LET p == actions[i].player_id
                bt == actions[i].build_type
                f == GroupFrame(i)
            IN  Cardinality({k \in ExplicitEvents(p) :
                                /\ building_orders[p][k].building_type = bt
                                /\ building_orders[p][k].frame = f})
                = Cardinality({DedupKey(actions[j]) :
                                j \in {k \in Placements :
                                          /\ actions[k].player_id = p
                                          /\ actions[k].build_type = bt
                                          /\ GroupFrame(k) = f}})

\* The frames at which player p used a spawn capability that implies the
\* structure named name.
SpawnFrames(p, name) ==
    {actions[i].frame :
        i \in {j \in DOMAIN actions :
                 /\ IsSpawnUse(actions[j])
                 /\ actions[j].player_id = p
                 /\ SPAWN_TO_BUILDING[actions[j].target_type_name] = name}}

\* The frames of player p's explicit build entries for the structure named
\* name (under that name, a variant "name (...)" of it, or a name that
\* starts with it).
ExplicitFrames(p, name) ==
    {building_orders[p][k].frame :
        k \in {j \in ExplicitEvents(p) :
                 LET n == building_orders[p][j].building_name
                 IN  n = name \/ BaseName(n) = name \/ StartsWith(n, name)}}

\* C9: for each non-sentinel actor and each structure implied by a spawn
\* capability they used, if the structure is not a starting structure and
\* the actor has no explicit build entry for it, or their first explicit
\* build of it is later than the first spawn, the build order holds an
\* inferred entry for it at the earliest spawn frame.
C9_InferredBuildings ==
    pc = "analyzed" =>
        \A i \in {j \in DOMAIN actions : IsSpawnUse(actions[j])} :
            LET p == actions[i].player_id
                name == SPAWN_TO_BUILDING[actions[i].target_type_name]
                first == SetMin(SpawnFrames(p, name))
                built == ExplicitFrames(p, name)
            IN  ( /\ name \notin StartingBuildings
                  /\ built = {} \/ first < SetMin(built) )
                => /\ p \in DOMAIN building_orders
                   /\ \E k \in DOMAIN building_orders[p] :
                         /\ building_orders[p][k].inferred
                         /\ building_orders[p][k].frame = first
                         /\ building_orders[p][k].building_name
                                = name \o <<" [Inferred]">>

\* ------------------------------------------------------------------------
\* parse_sgreplay.py: get_player_factions
\* ------------------------------------------------------------------------

VANGUARD_MARKERS ==
    << <<"Barracks">>, <<"MechBay">>, <<"HQ", "Spawn">>, <<"HQ", "Tier">>,
       <<"Bob_">>, <<"Vulcan">>, <<"Hedgehog">>, <<"Atlas">>, <<"Hornet">>,
       <<"Helicarrier">> >>

CELESTIAL_MARKERS ==
    << <<"Arcship">>, <<"CreationChamber">>, <<"Kri">>, <<"Prism">>,
       <<"Animancer">>, <<"Saber">>, <<"Vector">>, <<"Celestial_">>,
       <<"PowerSurge">> >>

INFERNAL_MARKERS ==
    << <<"Shrine">>, <<"IronVault">>, <<"Conclave">>, <<"Imp_">>, <<"Fiend">>,
       <<"Brute">>, <<"Hexen">>, <<"Spriggan">>, <<"SummonEffigy">>,
       <<"Hellborne">> >>

\* any(marker in name for marker in markers)
HasMarker(name, markers) ==
    \E i \in DOMAIN markers : Contains(name, markers[i])

\* The faction the three marker loops give one name; None if they give none.
NameFaction(name) ==
    IF HasMarker(name, VANGUARD_MARKERS) THEN "Vanguard"
    ELSE IF HasMarker(name, CELESTIAL_MARKERS) THEN "Celestial"
    ELSE IF HasMarker(name, INFERNAL_MARKERS) THEN "Infernal"
    ELSE None

\* for name in [ability_name, target_type_name]: the first name that is
\* present and carries a marker decides.
ActionFaction(a) ==
    IF a.ability_name # NoName /\ NameFaction(a.ability_name) # None
    THEN NameFaction(a.ability_name)
    ELSE IF a.target_type_name # NoName
    THEN NameFaction(a.target_type_name)
    ELSE None

\* The loop body with the 'pid in factions' test left out of the skip
\* condition: a later marker overwrites the faction.
FactionStepOverwriting(fs, a) ==
    LET pid == a.player_id
    IN  IF pid = 0 \/ pid = SENTINEL \/ ActionFaction(a) = None THEN fs
        ELSE [x \in DOMAIN fs \cup {pid} |->
                 IF x = pid THEN ActionFaction(a) ELSE fs[x]]

\* One iteration of 'for a in self.actions' on the dict fs.  A player_id
\* that is None or 0 is 'not pid'.
FactionStep(fs, a) ==
    LET pid == a.player_id
    IN  IF pid = 0 \/ pid = SENTINEL \/ pid \in DOMAIN fs THEN fs
        ELSE IF ActionFaction(a) = None THEN fs
        ELSE [x \in DOMAIN fs \cup {pid} |->
                 IF x = pid THEN ActionFaction(a) ELSE fs[x]]

\* for pid in self.players.keys(): factions[pid] = 'Unknown' if missing
FillUnknown(fs, pl) ==
    [x \in DOMAIN fs \cup DOMAIN pl |->
        IF x \in DOMAIN fs THEN fs[x] ELSE "Unknown"]

RECURSIVE FactionLoop(_, _, _)
\* for a in self.actions, from the i-th action on.
FactionLoop(acts, i, fs) ==
    IF i > Len(acts) THEN fs
    ELSE FactionLoop(acts, i + 1, FactionStep(fs, acts[i]))

get_player_factions(acts, pl) == FillUnknown(FactionLoop(acts, 1, <<>>), pl)

\* ---- Specification of faction detection --------------------------------

MaxScanned == 3

FactionAction(p, ability, tt) ==
    [type |-> "COMMAND", player_id |-> p, ability_name |-> ability,
     target_type_name |-> tt]

\* Two players who use BarracksSpawn on a target, cast ArcshipSpawn, cast
\* Shrine on a BarracksSpawn target, or attack; player 1 casting a name
\* that carries markers of two factions; the sentinel and actor id 0 using
\* BarracksSpawn.
FactionInputs ==
    {FactionAction(p, n[1], n[2]) :
        p \in {1, 2},
        n \in {<<NoName, <<"Barracks", "Spawn">> >>,
               << <<"Arcship", "Spawn">>, NoName>>,
               << <<"Shrine">>, <<"Barracks", "Spawn">> >>,
               << <<"attackData">>, NoName>>}}
    \cup {FactionAction(1, <<"Celestial_", "Barracks">>, NoName),
          FactionAction(SENTINEL, NoName, <<"Barracks", "Spawn">>),
          FactionAction(0, NoName, <<"Barracks", "Spawn">>)}

RECURSIVE ActionLists(_, _)
\* The lists of at most n members of S.
ActionLists(S, n) ==
    IF n = 0 THEN {<<>>}
    ELSE LET shorter == ActionLists(S, n - 1)
         IN  shorter \cup {Append(l, a) : l \in {x \in shorter : Len(x) = n - 1},
                                          a \in S}

\* No player known, or Alice at slot 1 and Bob at slot 2.
PlayerMaps ==
    {<<>>, <<<<"Alice">>, <<"Bob">>>>}

InitFaction ==
    /\ pc = "scan"
    /\ actions \in ActionLists(FactionInputs, MaxScanned)
    /\ players \in PlayerMaps
    /\ factions = <<>>
    /\ scan = 0
    /\ buildings_json = Unused /\ building_orders = Unused /\ RollupUnused
    /\ raw_messages = Unused
    /\ messages = Unused /\ footer = Unused /\ max_sync_time = Unused
    /\ raised = Unused /\ json = Unused
    /\ EntityUnused /\ DecodeUnused /\ TimeUnused
    /\ OptionUnused /\ WebUnused

\* for a in self.actions: one iteration.
ScanAction ==
    /\ pc = "scan"
    /\ scan < Len(actions)
    /\ factions' = FactionStep(factions, actions[scan + 1])
    /\ scan' = scan + 1
    /\ UNCHANGED <<pc, entityVars, decodeVars, buildVars, parseVars, timeVars,
                   optionVars, webVars>>

\* The loop is over: fill in Unknown and return.
ReturnFactions ==
    /\ pc = "scan"
    /\ scan = Len(actions)
    /\ factions' = FillUnknown(factions, players)
    /\ pc' = "done"
    /\ UNCHANGED <<scan, entityVars, decodeVars, buildVars, parseVars, timeVars,
                   optionVars, webVars>>

NextFaction == ScanAction \/ ReturnFactions

SpecFaction == InitFaction /\ [][NextFaction]_vars

FactionNames == {"Vanguard", "Celestial", "Infernal"}

MarkersOf(f) ==
    CASE f = "Vanguard" -> VANGUARD_MARKERS
      [] f = "Celestial" -> CELESTIAL_MARKERS
      [] f = "Infernal" -> INFERNAL_MARKERS

\* The factions of which the action's ability_name or target_type_name
\* contains a marker.
MarkedFactions(a) ==
    {f \in FactionNames :
        \/ HasMarker(a.ability_name, MarkersOf(f))
        \/ HasMarker(a.target_type_name, MarkersOf(f))}

\* The positions, among the actions scanned so far, of the actor's actions
\* that carry a marker.
MarkerIdx(p) ==
    {i \in 1..scan : actions[i].player_id = p /\ MarkedFactions(actions[i]) # {}}

\* The actors: the ids of the actions and of the player map, the sentinel
\* and the id 0 (no slot: slots are 1-based) left out.
Actors ==
    ({actions[i].player_id : i \in DOMAIN actions} \cup DOMAIN players)
        \ {0, SENTINEL}

\* C10: at every point of the scan and at its end, an actor who has used a
\* name with a faction marker has the faction marked by the first such
\* action in list order (so no later action changes it), and at the end
\* every player of the player map without any marker is 'Unknown'.
C10_FirstMarkerFixesFaction ==
    \A p \in Actors :
        IF MarkerIdx(p) # {}
        THEN /\ p \in DOMAIN factions
             /\ factions[p] \in MarkedFactions(actions[SetMin(MarkerIdx(p))])
        ELSE (pc = "done" /\ p \in DOMAIN players) =>
                (p \in DOMAIN factions /\ factions[p] = "Unknown")

\* Player 1 first uses a Vanguard name and later a Celestial one and is
\* Vanguard at the end, while player 2, who is in the player map and used
\* no marker, is Unknown.
C10_Witness ==
    /\ pc = "done"
    /\ \E i, j \in DOMAIN actions :
          /\ i < j
          /\ actions[i].player_id = 1 /\ actions[j].player_id = 1
          /\ i = SetMin(MarkerIdx(1) \cup {i})
          /\ MarkedFactions(actions[i]) = {"Vanguard"}
          /\ MarkedFactions(actions[j]) = {"Celestial"}
    /\ factions[1] = "Vanguard"
    /\ 2 \in DOMAIN players /\ MarkerIdx(2) = {} /\ factions[2] = "Unknown"

\* ------------------------------------------------------------------------
\* Values of differing Python types (what get_nested returns, what a dict
\* of the simplified footer holds) carry their type in the field py.
\* ------------------------------------------------------------------------

PyNone == [py |-> "None"]
PyInt(n) == [py |-> "int", int |-> n]
PyStr(str) == [py |-> "str", str |-> str]
PyBytes(b) == [py |-> "bytes", bytes |-> b]
PyDict(d) == [py |-> "dict", fields |-> d]
PyList(l) == [py |-> "list", items |-> l]
\* A typed leaf {'t': ..., 'v': ...} handed on as it is.
PyEntry(e) == [py |-> "entry", entry |-> e]

\* bool(x)
Truthy(x) ==
    CASE x.py = "None" -> FALSE
      [] x.py = "int" -> x.int # 0
      [] x.py = "str" -> x.str # <<>>
      [] x.py = "bytes" -> x.bytes # <<>>
      [] x.py = "dict" -> x.fields # <<>>
      [] x.py = "list" -> x.items # <<>>
      [] OTHER -> TRUE

\* An insertion-ordered dict as the sequence of its [k, v] items.
DictHas(d, k) == \E i \in DOMAIN d : d[i].k = k

DictGet(d, k) == d[CHOOSE i \in DOMAIN d : d[i].k = k].v

\* d[k] = val: a key already present keeps its place.
DictPut(d, k, val) ==
    IF DictHas(d, k)
    THEN [i \in DOMAIN d |-> IF d[i].k = k THEN [k |-> k, v |-> val] ELSE d[i]]
    ELSE Append(d, [k |-> k, v |-> val])

\* ------------------------------------------------------------------------
\* protobuf.py: get_nested, pb_get on a decoded tree.  A tree is the
\* sequence of its leaves [fn, t, v] in wire order, as DecodeLoop builds it;
\* the dict of the code maps fn to the leaves with that fn, in this order.
\* ------------------------------------------------------------------------

Leaf(fn, t, v) == [fn |-> fn, t |-> t, v |-> v]

\* pb_get(d, key) normalised to a list ('field if isinstance(field, list)
\* else [field]'); empty if the key is missing.
pb_get(fields, key) == SelectSeq(fields, LAMBDA e : e.fn = key)

RECURSIVE get_nested(_, _)
get_nested(current, path) ==
    IF path = <<>> THEN current
    ELSE IF current.py # "dict" THEN PyNone
    ELSE LET vals == pb_get(current.fields, Head(path))
         IN  IF vals = <<>> THEN PyNone
             ELSE LET entry == vals[1]
                  IN  CASE entry.t = "m" -> get_nested(PyDict(entry.v), Tail(path))
                        [] entry.t = "g" -> PyDict(entry.v)
                        [] entry.t = "v" -> PyInt(entry.v)
                        [] entry.t = "s" -> PyStr(entry.v)
                        [] entry.t \in {"q", "f"} -> PyBytes(entry.v)
                        [] OTHER -> PyEntry(entry)

\* The field numbers of a tree in the order the dict holds its keys.
RECURSIVE KeysOf(_, _, _)
KeysOf(fields, i, keys) ==
    IF i > Len(fields) THEN keys
    ELSE KeysOf(fields, i + 1,
                IF \E j \in DOMAIN keys : keys[j] = fields[i].fn THEN keys
                ELSE Append(keys, fields[i].fn))

\* The leaves in the order 'for k, values in d.items(): for entry in
\* values' visits them.
RECURSIVE ItemsOf(_, _, _)
ItemsOf(fields, keys, i) ==
    IF i > Len(keys) THEN <<>>
    ELSE pb_get(fields, keys[i]) \o ItemsOf(fields, keys, i + 1)

\* ------------------------------------------------------------------------
\* parse_sgreplay.py: _extract_game_info (the player map)
\* ------------------------------------------------------------------------

\* self.messages[:50]
INFO_RECORDS == 50

\* A value that a footer entry, or the footer, does not carry.
Absent == -1

\* self.players[slot] = name
PlayersPut(pl, slot, name) ==
    [x \in DOMAIN pl \cup {slot} |-> IF x = slot THEN name ELSE pl[x]]

RECURSIVE Profile45(_, _, _, _)
\* for entry in entries (tag 45): bind the record's actor to the name at
\* child 5 -> child 1.
Profile45(entries, i, pid, pl) ==
    IF i > Len(entries) THEN pl
    ELSE LET entry == entries[i]
             name_data == get_nested(PyDict(entry.v), <<5>>)
             name == get_nested(name_data, <<1>>)
             bound == /\ entry.t = "m"
                      /\ Truthy(name_data) /\ name_data.py = "dict"
                      /\ Truthy(name) /\ name.py = "str"
         IN  Profile45(entries, i + 1, pid,
                       IF bound THEN PlayersPut(pl, pid.int, name.str) ELSE pl)

RECURSIVE FirstPass(_, _, _)
\* First pass: tag 45 of the first records.
FirstPass(msgs, i, pl) ==
    IF i > Len(msgs) \/ i > INFO_RECORDS THEN pl
    ELSE LET pid == get_nested(PyDict(msgs[i]), <<2>>)
             content == get_nested(PyDict(msgs[i]), <<3, 1>>)
             field45 == IF content.py = "dict" THEN pb_get(content.fields, 45) ELSE <<>>
         IN  FirstPass(msgs, i + 1,
                 IF /\ Truthy(content) /\ field45 # <<>>
                    /\ Truthy(pid) /\ pid.py = "int" /\ pid.int # SENTINEL
                 THEN Profile45(field45, 1, pid, pl)
                 ELSE pl)

RECURSIVE Join37Overwriting(_, _, _)
\* Join37 without 'if slot not in self.players': a join record rebinds.
Join37Overwriting(entries, i, pl) ==
    IF i > Len(entries) THEN pl
    ELSE LET entry == entries[i]
             slot == get_nested(PyDict(entry.v), <<2>>)
             name == get_nested(PyDict(entry.v), <<3>>)
             bound == /\ entry.t = "m"
                      /\ Truthy(slot) /\ slot.py = "int"
                      /\ Truthy(name) /\ name.py = "str"
         IN  Join37Overwriting(entries, i + 1,
                    IF bound THEN PlayersPut(pl, slot.int, name.str) ELSE pl)

RECURSIVE Join37(_, _, _)
\* for entry in entries (tag 37): bind slot (child 2) to name (child 3)
\* unless the slot is bound.
Join37(entries, i, pl) ==
    IF i > Len(entries) THEN pl
    ELSE LET entry == entries[i]
             slot == get_nested(PyDict(entry.v), <<2>>)
             name == get_nested(PyDict(entry.v), <<3>>)
             bound == /\ entry.t = "m"
                      /\ Truthy(slot) /\ slot.py = "int"
                      /\ Truthy(name) /\ name.py = "str"
                      /\ slot.int \notin DOMAIN pl
         IN  Join37(entries, i + 1,
                    IF bound THEN PlayersPut(pl, slot.int, name.str) ELSE pl)

RECURSIVE SecondPass(_, _, _)
\* Second pass: tag 37 of the first records (the map name is not modelled).
SecondPass(msgs, i, pl) ==
    IF i > Len(msgs) \/ i > INFO_RECORDS THEN pl
    ELSE LET content == get_nested(PyDict(msgs[i]), <<3, 1>>)
             field37 == IF content.py = "dict" THEN pb_get(content.fields, 37) ELSE <<>>
         IN  SecondPass(msgs, i + 1,
                 IF Truthy(content) THEN Join37(field37, 1, pl) ELSE pl)

\* 'Player {slot}'
PlayerN(slot) == <<"Player ", ToString(slot)>>

RECURSIVE FooterNames(_, _, _)
\* Names of the slots still missing, from the footer's player array.
FooterNames(players_data, i, pl) ==
    IF i > Len(players_data) THEN pl
    ELSE LET p == players_data[i]
             bound == /\ p.py = "dict"
                      /\ p.slot # Absent /\ p.slot # 0
                      /\ p.slot \notin DOMAIN pl
         IN  FooterNames(players_data, i + 1,
                 IF bound
                 THEN PlayersPut(pl, p.slot,
                                 IF p.name # NoName THEN p.name ELSE PlayerN(p.slot))
                 ELSE pl)

\* The footer is None, or a dict of which the model keeps key '3' (tag3 is
\* PyNone if the key is missing).
HasPlayerArray(ftr) == ftr.py = "dict" /\ ftr.tag3.py # "None"

extract_game_info(msgs, ftr) ==
    LET pl == SecondPass(msgs, 1, FirstPass(msgs, 1, <<>>))
    IN  IF HasPlayerArray(ftr) /\ ftr.tag3.py = "list"
        THEN FooterNames(ftr.tag3.items, 1, pl)
        ELSE pl

\* ------------------------------------------------------------------------
\* parse_sgreplay.py: _extract_actions
\* ------------------------------------------------------------------------

\* 'FIELD_{n}'
FieldType(n) == "FIELD_" \o ToString(n)

ActionType(field_num) ==
    CASE field_num = 7 -> "COMMAND"
      [] field_num = 4 -> "SPAWN"
      [] field_num = 40 -> "SYNC"
      [] field_num = 37 -> "PLAYER_JOIN"
      [] field_num = 45 -> "PROFILE"
      [] OTHER -> FieldType(field_num)

RECURSIVE SyncValues(_, _, _, _)
\* for k, v in data.items(): sync_k is the first leaf of k if it is a varint.
SyncValues(fields, keys, i, sync) ==
    IF i > Len(keys) THEN sync
    ELSE LET first == pb_get(fields, keys[i])[1]
         IN  SyncValues(fields, keys, i + 1,
                 IF first.t = "v" THEN DictPut(sync, keys[i], first.v) ELSE sync)

\* frame / FRAME_RATE_HZ is defined for None (handled before) and numbers.
FrameRaises(frame) == frame.py \notin {"None", "int"}

\* self.players.get(pid, ...) hashes pid.
PidRaises(pid) == pid.py \in {"dict", "entry"}

\* self.players.get(pid, f"P{pid}")
PlayerOf(pl, pid) ==
    IF pid.py = "int" /\ pid.int \in DOMAIN pl THEN pl[pid.int]
    ELSE <<"P", IF pid.py = "None" THEN None ELSE ToString(pid)>>

\* The action of one message leaf under content.  Of a COMMAND, SPAWN,
\* PLAYER_JOIN the fields read from the leaf's subtree are not kept here.
ProjectAction(frame, pid, pl, entry) ==
    [frame |-> frame,
     time |-> frame_to_time(IF frame.py = "None" THEN -1 ELSE frame.int),
     player_id |-> pid,
     player |-> PlayerOf(pl, pid),
     field |-> entry.fn,
     type |-> ActionType(entry.fn),
     sync |-> IF entry.fn = 40
              THEN SyncValues(entry.v, KeysOf(entry.v, 1, <<>>), 1, <<>>)
              ELSE <<>>]

\* action.get('sync_1') and action['sync_1'] > self.max_sync_time
NewMaxSync(action, max_sync) ==
    IF /\ action.type = "SYNC" /\ DictHas(action.sync, 1)
       /\ DictGet(action.sync, 1) # 0 /\ DictGet(action.sync, 1) > max_sync
    THEN DictGet(action.sync, 1)
    ELSE max_sync

RECURSIVE EntryLoop(_, _, _, _, _, _)
\* for entry in entries, over all keys of content; st is [actions,
\* max_sync_time, raised].
EntryLoop(entries, k, frame, pid, pl, st) ==
    IF k > Len(entries) \/ st.raised # None THEN st
    ELSE LET entry == entries[k]
         IN  IF entry.t # "m" THEN EntryLoop(entries, k + 1, frame, pid, pl, st)
             ELSE IF FrameRaises(frame) \/ PidRaises(pid)
             THEN [st EXCEPT !.raised = "TypeError"]
             ELSE LET action == ProjectAction(frame, pid, pl, entry)
                  IN  EntryLoop(entries, k + 1, frame, pid, pl,
                          [actions |-> Append(st.actions, action),
                           max_sync_time |-> NewMaxSync(action, st.max_sync_time),
                           raised |-> None])

RECURSIVE MessageLoop(_, _, _, _)
\* for msg in self.messages
MessageLoop(msgs, i, pl, st) ==
    IF i > Len(msgs) \/ st.raised # None THEN st
    ELSE LET frame == get_nested(PyDict(msgs[i]), <<1>>)
             pid == get_nested(PyDict(msgs[i]), <<2>>)
             content == get_nested(PyDict(msgs[i]), <<3, 1>>)
         IN  IF content.py # "dict" THEN MessageLoop(msgs, i + 1, pl, st)
             ELSE MessageLoop(msgs, i + 1, pl,
                      EntryLoop(ItemsOf(content.fields, KeysOf(content.fields, 1, <<>>), 1),
                                1, frame, pid, pl, st))

extract_actions(msgs, pl) ==
    MessageLoop(msgs, 1, pl, [actions |-> <<>>, max_sync_time |-> 0, raised |-> None])

\* ------------------------------------------------------------------------
\* parse_sgreplay.py: get_game_result
\* ------------------------------------------------------------------------

RECURSIVE SlotToInfo(_, _, _)
\* slot -> {name, team}, as an ordered dict.
SlotToInfo(players_data, i, slot_to_info) ==
    IF i > Len(players_data) THEN slot_to_info
    ELSE LET p == players_data[i]
         IN  SlotToInfo(players_data, i + 1,
                 IF p.py = "dict" /\ p.slot # Absent /\ p.slot # 0
                 THEN DictPut(slot_to_info, p.slot,
                              [name |-> IF p.name # NoName THEN p.name
                                        ELSE PlayerN(p.slot),
                               team |-> p.team])
                 ELSE slot_to_info)

\* The team that the tag-31 leaves of one record give: only the first of
\* them that is a message is looked at ('break').
RecordWinningTeam(msg, slot_to_info) ==
    LET content == get_nested(PyDict(msg), <<3, 1>>)
        field31 == IF content.py = "dict" THEN pb_get(content.fields, 31) ELSE <<>>
        ms == SelectSeq(field31, LAMBDA e : e.t = "m")
        winner_slot == IF ms = <<>> THEN PyNone
                       ELSE get_nested(PyDict(ms[1].v), <<1>>)
    IN  IF /\ Truthy(content) /\ ms # <<>>
           /\ Truthy(winner_slot) /\ winner_slot.py = "int"
           /\ DictHas(slot_to_info, winner_slot.int)
        THEN DictGet(slot_to_info, winner_slot.int).team
        ELSE Absent

RECURSIVE WinningTeam(_, _, _)
\* for msg in self.messages: until a record gives a team.
WinningTeam(msgs, i, slot_to_info) ==
    IF i > Len(msgs) THEN Absent
    ELSE LET team == RecordWinningTeam(msgs[i], slot_to_info)
         IN  IF team # Absent THEN team
             ELSE WinningTeam(msgs, i + 1, slot_to_info)

RECURSIVE ByTeam(_, _, _, _)
\* Winners and losers by team; res is [winners, losers, player_results].
ByTeam(slot_to_info, i, winning_team, res) ==
    IF i > Len(slot_to_info) THEN res
    ELSE LET slot == slot_to_info[i].k
             info == slot_to_info[i].v
         IN  ByTeam(slot_to_info, i + 1, winning_team,
                 IF info.team = winning_team
                 THEN [winners |-> Append(res.winners, info.name),
                       losers |-> res.losers,
                       player_results |-> DictPut(res.player_results, slot, "win")]
                 ELSE [winners |-> res.winners,
                       losers |-> Append(res.losers, info.name),
                       player_results |-> DictPut(res.player_results, slot, "loss")])

RECURSIVE ByMarker(_, _, _)
\* Fallback: tag 3 = 1 is a win, anything else a loss.
ByMarker(players_data, i, res) ==
    IF i > Len(players_data) THEN res
    ELSE LET p == players_data[i]
             has_slot == p.slot # Absent /\ p.slot # 0
             name == IF p.name # NoName THEN p.name
                     ELSE IF has_slot THEN PlayerN(p.slot) ELSE <<"Unknown">>
             is_winner == p.f3 = 1
             verdict == IF is_winner THEN "win" ELSE "loss"
         IN  IF p.py # "dict" THEN ByMarker(players_data, i + 1, res)
             ELSE ByMarker(players_data, i + 1,
                     [winners |-> IF is_winner THEN Append(res.winners, name)
                                  ELSE res.winners,
                      losers |-> IF is_winner THEN res.losers
                                 ELSE Append(res.losers, name),
                      player_results |-> IF has_slot
                                         THEN DictPut(res.player_results, p.slot, verdict)
                                         ELSE res.player_results])

RECURSIVE NameToResult(_, _, _, _)
\* name_to_result[info['name']] = res, for the slots of player_results.
NameToResult(player_results, i, slot_to_info, name_to_result) ==
    IF i > Len(player_results) THEN name_to_result
    ELSE LET slot == player_results[i].k
         IN  NameToResult(player_results, i + 1, slot_to_info,
                 IF DictHas(slot_to_info, slot)
                 THEN DictPut(name_to_result, DictGet(slot_to_info, slot).name,
                              player_results[i].v)
                 ELSE name_to_result)

UnknownResult ==
    [result |-> "unknown", winners |-> <<>>, losers |-> <<>>,
     player_results |-> <<>>]

get_game_result(ftr, msgs, pl) ==
    IF ~HasPlayerArray(ftr) \/ ftr.tag3.py # "list" THEN UnknownResult
    ELSE LET players_data == ftr.tag3.items
             slot_to_info == SlotToInfo(players_data, 1, <<>>)
             teams == {slot_to_info[i].v.team : i \in DOMAIN slot_to_info} \ {Absent}
             has_valid_teams == Cardinality(teams) >= 2
             winning_team == IF has_valid_teams
                             THEN WinningTeam(msgs, 1, slot_to_info)
                             ELSE Absent
             empty == [winners |-> <<>>, losers |-> <<>>, player_results |-> <<>>]
             res == IF winning_team # Absent
                    THEN ByTeam(slot_to_info, 1, winning_team, empty)
                    ELSE ByMarker(players_data, 1, empty)
             name_to_result == NameToResult(res.player_results, 1, slot_to_info, <<>>)
             slots == {g \in DOMAIN pl : DictHas(name_to_result, pl[g])}
         IN  [result |-> IF res.winners # <<>> \/ res.losers # <<>>
                         THEN "complete" ELSE "unknown",
              winners |-> res.winners,
              losers |-> res.losers,
              player_results |-> [g \in slots |-> DictGet(name_to_result, pl[g])]]

\* ------------------------------------------------------------------------
\* parse_sgreplay.py: get_player_teams, to_json
\* ------------------------------------------------------------------------

\* 'for p in self.footer['3']' iterates the value whatever it is.
TeamsRaises(ftr) == HasPlayerArray(ftr) /\ ftr.tag3.py = "int"

RECURSIVE NameToTeam(_, _, _)
NameToTeam(players_data, i, name_to_team) ==
    IF i > Len(players_data) THEN name_to_team
    ELSE LET p == players_data[i]
         IN  NameToTeam(players_data, i + 1,
                 IF /\ p.py = "dict" /\ p.name # NoName
                    /\ p.team # Absent /\ p.team # 0
                 THEN DictPut(name_to_team, p.name, p.team)
                 ELSE name_to_team)

\* Iterating a dict (a single, unwrapped entry) gives its keys, which are
\* not dicts.
get_player_teams(ftr, pl) ==
    LET name_to_team ==
            IF HasPlayerArray(ftr) /\ ftr.tag3.py = "list"
            THEN NameToTeam(ftr.tag3.items, 1, <<>>)
            ELSE <<>>
        pids == {pid \in DOMAIN pl : DictHas(name_to_team, pl[pid])}
    IN  [pid \in pids |-> DictGet(name_to_team, pl[pid])]

\* self.max_sync_time / FRAME_RATE_HZ if self.max_sync_time > 0 else 0, as
\* the pair of the whole seconds and the remaining 1/1024ths.
DurationSeconds(max_sync) ==
    IF max_sync > 0
    THEN <<max_sync \div FRAME_RATE_HZ, max_sync % FRAME_RATE_HZ>>
    ELSE <<0, 0>>

\* The sections of the document that come from the record stream and the
\* footer; the roll-ups of the action list are the analyzers' own results.
to_json(msgs, ftr, pl, acts, max_sync) ==
    [players |-> pl,
     player_teams |-> get_player_teams(ftr, pl),
     game_result |-> get_game_result(ftr, msgs, pl),
     total_messages |-> Len(msgs),
     total_actions |-> Len(acts),
     duration_seconds |-> DurationSeconds(max_sync)]

\* ---- Specification of parse() and to_json() ----------------------------

MaxMessages == 2

Varint(fn, n) == Leaf(fn, "v", n)
Message(fn, fields) == Leaf(fn, "m", fields)
String(fn, str) == Leaf(fn, "s", str)

\* A record: frame at tag 1, actor at tag 2, content at tag 3 -> child 1.
Record(frame, pid, content) ==
    <<frame, pid, Message(3, <<Message(1, content)>>)>>

\* tag 31 with child 1 = slot
Tag31(slot) == Message(31, <<Varint(1, slot)>>)

\* SYNC records (sync_1 = 20480 at frame 10240, sync_1 = 4096 at frame
\* 2048, and one whose child 1 is a string), a COMMAND at frame 10240, a
\* COMMAND whose frame is a string, a record with a string frame whose
\* content holds no message, tag-31 records naming slot 1, slot 2, slot 3,
\* and slot 9 before slot 1, a record without content, and a profile record
\* that binds actor 1 to the name Zed.
ParseInputs ==
    {Record(Varint(1, 10240), Varint(2, 1), <<Message(40, <<Varint(1, 20480)>>)>>),
     Record(Varint(1, 2048), Varint(2, 2), <<Message(40, <<Varint(1, 4096)>>)>>),
     Record(Varint(1, 2048), Varint(2, 1), <<Message(40, <<String(1, <<"ab">>)>>)>>),
     Record(Varint(1, 10240), Varint(2, 1), <<Message(7, <<Varint(1, 1)>>)>>),
     Record(String(1, <<"ab">>), Varint(2, 1), <<Message(7, <<Varint(1, 1)>>)>>),
     Record(String(1, <<"ab">>), Varint(2, 1), <<Varint(7, 1)>>),
     Record(Varint(1, 4096), Varint(2, 1), <<Tag31(1)>>),
     Record(Varint(1, 4096), Varint(2, 1), <<Tag31(2)>>),
     Record(Varint(1, 4096), Varint(2, 1), <<Tag31(3)>>),
     Record(Varint(1, 4096), Varint(2, 1), <<Tag31(9), Tag31(1)>>),
     <<Varint(1, 1024), Varint(2, 1)>>,
     Record(Varint(1, 0), Varint(2, 1),
            <<Message(45, <<Message(5, <<String(1, <<"Zed">>)>>)>>)>>)}

\* An entry of the footer's player array, simplified: a dict with slot (key
\* '1'), name ('2'), tag 3, tag 4 and team ('5'), each possibly absent.
FooterPlayer(slot, name, team, f3, f4) ==
    [py |-> "dict", slot |-> slot, name |-> name, team |-> team,
     f3 |-> f3, f4 |-> f4]

\* Alice and Bob on teams 1 and 2, Carol without a team; Alice and Bob
\* without any mark, with tag 3 = 1, with tag 4 = 1 and 2; an entry that is
\* not a dict.
FooterEntries ==
    {FooterPlayer(1, <<"Alice">>, 1, Absent, Absent),
     FooterPlayer(2, <<"Bob">>, 2, Absent, Absent),
     FooterPlayer(3, <<"Carol">>, Absent, Absent, Absent),
     FooterPlayer(1, <<"Alice">>, Absent, Absent, Absent),
     FooterPlayer(2, <<"Bob">>, Absent, Absent, Absent),
     FooterPlayer(1, <<"Alice">>, Absent, 1, Absent),
     FooterPlayer(1, <<"Alice">>, Absent, Absent, 1),
     FooterPlayer(2, <<"Bob">>, Absent, Absent, 2),
     PyInt(5)}

FooterWith(tag3) == [py |-> "dict", tag3 |-> tag3]

\* No footer; a footer without key '3'; key '3' an integer; key '3' a single
\* entry (simplify_protobuf unwraps it); key '3' a list of two entries, or
\* of Alice, Bob and Carol.
Footers ==
    {PyNone, FooterWith(PyNone), FooterWith(PyInt(7))}
    \cup {FooterWith(e) : e \in {x \in FooterEntries : x.py = "dict"}}
    \cup {FooterWith(PyList(<<e1, e2>>)) : e1, e2 \in FooterEntries}
    \cup {FooterWith(PyList(<<FooterPlayer(1, <<"Alice">>, 1, Absent, Absent),
                              FooterPlayer(2, <<"Bob">>, 2, Absent, Absent),
                              FooterPlayer(3, <<"Carol">>, Absent, Absent, Absent)>>))}

\* After load(): the trees that the record loop of parse() decodes from the
\* body of the file, and the simplified footer.
InitParse ==
    /\ pc = "loaded"
    /\ raw_messages = Unused
    /\ messages \in ActionLists(ParseInputs, MaxMessages)
    /\ footer \in Footers
    /\ players = <<>>
    /\ actions = <<>>
    /\ max_sync_time = 0
    /\ raised = None
    /\ json = None
    /\ buildings_json = Unused /\ building_orders = Unused /\ RollupUnused
    /\ EntityUnused /\ DecodeUnused /\ FactionUnused /\ TimeUnused
    /\ OptionUnused /\ WebUnused

\* parse(): the player map, then the action list; an exception of
\* _extract_actions leaves the list as far as it got.  The chat log and the
\* entity table, which parse() fills last, are not kept by this
\* specification.
Parse ==
    /\ pc = "loaded"
    /\ LET pl == extract_game_info(messages, footer)
           st == extract_actions(messages, pl)
       IN  /\ players' = pl
           /\ actions' = st.actions
           /\ max_sync_time' = st.max_sync_time
           /\ raised' = st.raised
           /\ pc' = IF st.raised = None THEN "parsed" ELSE "raised"
    /\ UNCHANGED <<raw_messages, messages, footer, json,
                   buildings_json, building_orders, rollupVars,
                   entityVars, decodeVars, factionVars, timeVars,
                   optionVars, webVars>>

\* to_json(): get_game_result, ..., get_player_teams, then the document.
ToJson ==
    /\ pc = "parsed"
    /\ IF TeamsRaises(footer)
       THEN raised' = "TypeError" /\ pc' = "raised" /\ UNCHANGED json
       ELSE /\ json' = to_json(messages, footer, players, actions, max_sync_time)
            /\ pc' = "exported"
            /\ UNCHANGED raised
    /\ UNCHANGED <<raw_messages, messages, footer, players, max_sync_time,
                   buildVars,
                   entityVars, decodeVars, factionVars, timeVars,
                   optionVars, webVars>>

NextParse == Parse \/ ToJson

SpecParse == InitParse /\ [][NextParse]_vars

\* The dict entries of the footer's player array.
FooterDicts ==
    IF HasPlayerArray(footer) /\ footer.tag3.py = "list"
    THEN {e \in Range(footer.tag3.items) : e.py = "dict"}
    ELSE {}

FooterTeams == {e.team : e \in FooterDicts} \ {Absent}

\* The tag-31 messages under the content of the records.
Tag31Messages ==
    UNION {{e \in Range(pb_get(get_nested(PyDict(messages[i]), <<3, 1>>).fields, 31)) :
                e.t = "m"} :
           i \in {j \in DOMAIN messages :
                     get_nested(PyDict(messages[j]), <<3, 1>>).py = "dict"}}

\* The slots named at child 1 of the tag-31 messages of the records.
NamedSlots ==
    {get_nested(PyDict(e.v), <<1>>).int :
        e \in {x \in Tag31Messages : get_nested(PyDict(x.v), <<1>>).py = "int"}}

\* The footer players that some tag-31 message names.
NamedPlayers == {e \in FooterDicts : e.slot \in NamedSlots}

\* The footer is as the writer of the file makes it: every entry of the
\* array a dict with its own slot, name and team, known to the player map
\* under that name; and the tag-31 messages do not disagree about the team.
PlainTeamFooter ==
    /\ \A i \in DOMAIN footer.tag3.items :
          LET e == footer.tag3.items[i]
          IN  /\ e.py = "dict" /\ e.slot > 0 /\ e.name # NoName /\ e.team # Absent
              /\ e.slot \in DOMAIN players /\ players[e.slot] = e.name
              /\ \A j \in DOMAIN footer.tag3.items :
                    (footer.tag3.items[j].py = "dict" /\ j # i) =>
                        /\ footer.tag3.items[j].slot # e.slot
                        /\ footer.tag3.items[j].name # e.name
    /\ \A w1, w2 \in NamedPlayers : w1.team = w2.team

ResultLabel(e) ==
    IF e.slot \in DOMAIN json.game_result.player_results
    THEN json.game_result.player_results[e.slot]
    ELSE None

\* C4: when the footer's player array carries at least two distinct teams
\* and some record has a tag-31 message whose child 1 is the slot of a
\* footer player, every footer player on that player's team is in winners
\* and labelled 'win', every other footer player is in losers and labelled
\* 'loss', and result is 'complete'.
C4_TeamVerdict ==
    (/\ pc = "exported"
     /\ Cardinality(FooterTeams) >= 2
     /\ NamedPlayers # {}
     /\ PlainTeamFooter)
    => /\ json.game_result.result = "complete"
       /\ \A w \in NamedPlayers : \A e \in FooterDicts :
             IF e.team = w.team
             THEN /\ e.name \in Range(json.game_result.winners)
                  /\ ResultLabel(e) = "win"
             ELSE /\ e.name \in Range(json.game_result.losers)
                  /\ ResultLabel(e) = "loss"

\* No evidence source resolves a verdict: no usable teams with a tag-31
\* record, no footer entry with tag 3 = 1 or with tag 4 in {1, 2}.
NoEvidence ==
    /\ ~(Cardinality(FooterTeams) >= 2 /\ NamedPlayers # {})
    /\ \A e \in FooterDicts : e.f3 # 1 /\ e.f4 \notin {1, 2}

\* C5: when no evidence source resolves a verdict, a footer that lists
\* players but marks none of them included, the result is 'unknown' and
\* winners and losers are empty.
C5_UnknownWithoutEvidence ==
    (pc = "exported" /\ NoEvidence)
    => /\ json.game_result.result = "unknown"
       /\ json.game_result.winners = <<>>
       /\ json.game_result.losers = <<>>

\* C6: when fewer than two distinct teams are present and no footer entry
\* has tag 3 = 1, the footer entries with tag 4 = 1 are winners and those
\* with tag 4 = 2 are losers.
C6_Tag4Fallback ==
    (/\ pc = "exported"
     /\ Cardinality(FooterTeams) < 2
     /\ \A e \in FooterDicts : e.f3 # 1)
    => \A e \in FooterDicts :
          /\ e.f4 = 1 => e.name \in Range(json.game_result.winners)
          /\ e.f4 = 2 => e.name \in Range(json.game_result.losers)

\* C7: whatever the records and the footer hold, parse() and to_json()
\* return without raising.
C7_NeverRaises == raised = None

\* The SYNC actions that carry sync_1.
SyncOnes ==
    {DictGet(actions[i].sync, 1) :
        i \in {j \in DOMAIN actions :
                  actions[j].type = "SYNC" /\ DictHas(actions[j].sync, 1)}}

\* The frames of the records.
RecordFrames ==
    {get_nested(PyDict(messages[i]), <<1>>).int :
        i \in {j \in DOMAIN messages :
                  get_nested(PyDict(messages[j]), <<1>>).py = "int"}}

\* C8: the exported duration_seconds is the greatest sync_1 of the SYNC
\* actions divided by 1024, and without any SYNC record it is derived from
\* the greatest record frame, so it is not zero when there are records at
\* positive frames.
C8_Duration ==
    pc = "exported" =>
        /\ SyncOnes # {} =>
              json.duration_seconds =
                  <<SetMax(SyncOnes) \div 1024, SetMax(SyncOnes) % 1024>>
        /\ ((\A i \in DOMAIN actions : actions[i].type # "SYNC")
            /\ \E f \in RecordFrames : f > 0)
           => json.duration_seconds # <<0, 0>>


\* ---- Specification of _extract_game_info, pass by pass ------------------

MaxInfoRecords == 2

\* tag 45 with child 5 -> child 1 = name
Tag45(name) == Message(45, <<Message(5, <<String(1, name)>>)>>)

\* tag 37 with child 2 = slot and child 3 = name
Tag37(slot, name) == Message(37, <<Varint(2, slot), String(3, name)>>)

\* Profile records of actors 1 and 2 and of the sentinel, a profile record
\* of actor 1 under another name, join records for slots 1, 2 and 64, a
\* record that carries a profile of actor 1 and joins of slots 1 and 2, and
\* a record without content.
InfoInputs ==
    {Record(Varint(1, 0), Varint(2, 1), <<Tag45(<<"Zed">>)>>),
     Record(Varint(1, 0), Varint(2, 1), <<Tag45(<<"Yan">>)>>),
     Record(Varint(1, 0), Varint(2, 2), <<Tag45(<<"Ned">>)>>),
     Record(Varint(1, 0), Varint(2, SENTINEL), <<Tag45(<<"Tom">>)>>),
     Record(Varint(1, 0), Varint(2, 1), <<Tag37(1, <<"Joe">>)>>),
     Record(Varint(1, 0), Varint(2, 1), <<Tag37(2, <<"Ann">>), Tag37(2, <<"Ben">>)>>),
     Record(Varint(1, 0), Varint(2, 1), <<Tag37(SENTINEL, <<"Obs">>)>>),
     Record(Varint(1, 0), Varint(2, 1),
            <<Tag37(1, <<"Joe">>), Tag45(<<"Zed">>), Tag37(2, <<"Ann">>)>>),
     <<Varint(1, 1024), Varint(2, 1)>>}

\* No footer; Alice, Bob and Carol in slots 1 to 3; a nameless slot 2, the
\* sentinel slot and a second entry for slot 1; a single entry, which
\* simplify_protobuf hands on as a dict instead of a list.
InfoFooters ==
    {PyNone,
     FooterWith(PyList(<<FooterPlayer(1, <<"Alice">>, 1, Absent, Absent),
                         FooterPlayer(2, <<"Bob">>, 2, Absent, Absent),
                         FooterPlayer(3, <<"Carol">>, Absent, Absent, Absent)>>)),
     FooterWith(PyList(<<FooterPlayer(2, NoName, 1, Absent, Absent),
                         FooterPlayer(SENTINEL, <<"Obs">>, Absent, Absent, Absent),
                         FooterPlayer(1, <<"Alice">>, 1, Absent, Absent),
                         FooterPlayer(1, <<"Al">>, 1, Absent, Absent)>>)),
     FooterWith(FooterPlayer(1, <<"Alice">>, 1, Absent, Absent))}

InitInfo ==
    /\ pc = "first_pass"
    /\ raw_messages = Unused
    /\ messages \in ActionLists(InfoInputs, MaxInfoRecords)
    /\ footer \in InfoFooters
    /\ players = <<>>
    /\ max_sync_time = Unused /\ raised = Unused /\ json = Unused
    /\ EntityUnused /\ DecodeUnused /\ BuildUnused /\ FactionUnused /\ TimeUnused
    /\ OptionUnused /\ WebUnused

\* First pass: the profile records.
InfoFirstPass ==
    /\ pc = "first_pass"
    /\ players' = FirstPass(messages, 1, players)
    /\ pc' = "second_pass"
    /\ UNCHANGED <<raw_messages, messages, footer, max_sync_time, raised, json,
                   entityVars, decodeVars, buildVars, factionVars, timeVars,
                   optionVars, webVars>>

\* Second pass: the join records.
InfoSecondPass ==
    /\ pc = "second_pass"
    /\ players' = SecondPass(messages, 1, players)
    /\ pc' = "footer_pass"
    /\ UNCHANGED <<raw_messages, messages, footer, max_sync_time, raised, json,
                   entityVars, decodeVars, buildVars, factionVars, timeVars,
                   optionVars, webVars>>

\* Fallback: the footer's player array, if the footer has one.
InfoFooterPass ==
    /\ pc = "footer_pass"
    /\ players' = IF HasPlayerArray(footer) /\ footer.tag3.py = "list"
                  THEN FooterNames(footer.tag3.items, 1, players)
                  ELSE players
    /\ pc' = "info_done"
    /\ UNCHANGED <<raw_messages, messages, footer, max_sync_time, raised, json,
                   entityVars, decodeVars, buildVars, factionVars, timeVars,
                   optionVars, webVars>>

\* A PROFILE or PLAYER_JOIN action as get_player_factions reads it: it has
\* an actor and neither 'ability_name' nor 'target_type_name', which
\* _extract_actions sets on COMMAND actions only.
NamelessAction(a) ==
    [type |-> a.type,
     player_id |-> IF a.player_id.py = "int" THEN a.player_id.int ELSE 0,
     ability_name |-> NoName, target_type_name |-> NoName]

\* parse() goes on to _extract_actions, and to_json() hands the list and the
\* player map to get_player_factions.  The records of this specification
\* hold profile and join entries only.
InfoPlayerFactions ==
    /\ pc = "info_done"
    /\ LET st == extract_actions(messages, players)
       IN  factions' = get_player_factions(
                           [k \in DOMAIN st.actions |-> NamelessAction(st.actions[k])],
                           players)
    /\ pc' = "player_factions"
    /\ UNCHANGED <<scan, parseVars, entityVars, decodeVars, buildVars, timeVars,
                   optionVars, webVars>>

NextInfo == InfoFirstPass \/ InfoSecondPass \/ InfoFooterPass \/ InfoPlayerFactions

SpecInfo == InitInfo /\ [][NextInfo]_vars

\* The records that have content, and the 'm' entries of a tag under it.
WithContent ==
    {i \in DOMAIN messages : get_nested(PyDict(messages[i]), <<3, 1>>).py = "dict"}

ContentEntries(i, tag) ==
    {e \in Range(pb_get(get_nested(PyDict(messages[i]), <<3, 1>>).fields, tag)) :
        e.t = "m"}

\* The names that profile records (tag 45) of actor slot carry.
Names45(slot) ==
    IF slot = SENTINEL THEN {}
    ELSE {get_nested(PyDict(e.v), <<5, 1>>).str :
            e \in UNION {ContentEntries(i, 45) :
                            i \in {j \in WithContent :
                                     get_nested(PyDict(messages[j]), <<2>>) = PyInt(slot)}}}

\* The names that join records (tag 37) give to slot.
Names37(slot) ==
    {get_nested(PyDict(e.v), <<3>>).str :
        e \in {x \in UNION {ContentEntries(i, 37) : i \in WithContent} :
                 get_nested(PyDict(x.v), <<2>>) = PyInt(slot)}}

\* The names that the footer's player array gives to slot.
NamesFooter(slot) ==
    {IF e.name # NoName THEN e.name ELSE PlayerN(slot) :
        e \in {x \in FooterDicts : x.slot = slot}}

InfoSlots == {1, 2, 3, SENTINEL}

\* Where slot stands once the pass before position at has run.
BoundFrom(slot, names) == slot \in DOMAIN players /\ players[slot] \in names

C12_StagePart ==
    \A slot \in InfoSlots \cup DOMAIN players :
        /\ pc = "first_pass" => slot \notin DOMAIN players
        /\ pc # "first_pass" /\ Names45(slot) # {} =>
              BoundFrom(slot, Names45(slot))
        /\ pc = "second_pass" /\ Names45(slot) = {} =>
              slot \notin DOMAIN players
        /\ pc \in {"footer_pass", "info_done"} /\ Names45(slot) = {}
              /\ Names37(slot) # {} =>
              BoundFrom(slot, Names37(slot))
        /\ pc = "footer_pass" /\ Names45(slot) = {} /\ Names37(slot) = {} =>
              slot \notin DOMAIN players
        /\ pc = "info_done" /\ Names45(slot) = {} /\ Names37(slot) = {} =>
              IF NamesFooter(slot) # {}
              THEN BoundFrom(slot, NamesFooter(slot))
              ELSE slot \notin DOMAIN players

\* A binding made by an earlier pass is left as it is by the later ones.
C12_KeepPart ==
    pc \in {"second_pass", "footer_pass"} =>
        \A slot \in DOMAIN players :
            slot \in DOMAIN players' /\ players'[slot] = players[slot]

\* C12: the three evidence paths are applied in order and merged: a slot's
\* name bound from a tag-45 profile record is never replaced by a tag-37
\* join record or by the footer, a tag-37 binding is made only for a slot
\* not yet bound, and the footer only fills the slots still missing.
C12_Precedence == []C12_StagePart /\ [][C12_KeepPart]_vars

\* All three paths name slot 1, two name slot 2, only the footer slot 3.
C12_Witness ==
    /\ pc = "info_done"
    /\ Names45(1) # {} /\ Names37(1) # {} /\ NamesFooter(1) # {}
    /\ Names45(1) \cap (Names37(1) \cup NamesFooter(1)) = {}
    /\ players[1] \in Names45(1)
    /\ Names45(2) = {} /\ Names37(2) # {} /\ NamesFooter(2) # {}
    /\ players[2] \in Names37(2) /\ players[2] \notin NamesFooter(2)
    /\ Names45(3) = {} /\ Names37(3) = {} /\ players[3] \in NamesFooter(3)


\* ---- Specification of the record loop of parse() ------------------------

MaxBodyBytes == 5

\* Lengths 0 to 3, the tag 0x08 (field 1, varint), the end-group tag 0x04
\* (a record that decodes to an empty dict) and 0x80, a varint byte that
\* asks for a successor.
BodyBytes == {0, 1, 2, 3, 4, 8, 128}

RECURSIVE Bodies(_)
Bodies(n) ==
    IF n = 0 THEN {<<>>}
    ELSE LET shorter == Bodies(n - 1)
         IN  shorter \cup {Append(x, b) : x \in {y \in shorter : Len(y) = n - 1},
                                          b \in BodyBytes}

\* Three varint bytes in a row that ask for a successor: a varint of four
\* bytes or more.
LongVarint(x) ==
    \E i \in 1..(Len(x) - 2) : x[i] >= 128 /\ x[i + 1] >= 128 /\ x[i + 2] >= 128

\* 'length <= 0 or pos + length > len(self.raw_data)' with the record said
\* to end at the end of the body taken for one that runs past it.
StreamStopsAtEnd(bytes, pos, length) ==
    length <= 0 \/ pos + length >= Len(bytes)

\* 'length <= 0 or pos + length > len(self.raw_data)'
StreamStops(bytes, pos, length) ==
    length <= 0 \/ pos + length > Len(bytes)

\* After load(): the decompressed body, nothing read from it yet.  The
\* varints of the body have three bytes at most.
InitStream ==
    /\ pc = "read_record"
    /\ data \in {x \in Bodies(MaxBodyBytes) : ~LongVarint(x)}
    /\ offset = 0
    /\ decoded = Unused
    /\ call = Unused
    /\ raw_messages = <<>>
    /\ messages = <<>>
    /\ raised = None
    /\ footer = Unused /\ players = Unused /\ max_sync_time = Unused
    /\ json = Unused
    /\ EntityUnused /\ BuildUnused /\ FactionUnused /\ TimeUnused
    /\ OptionUnused /\ WebUnused

\* One turn of 'while pos < len(self.raw_data)': the record is kept, or
\* the loop is left.
ReadRecord ==
    /\ pc = "read_record"
    /\ offset < Len(data)
    /\ LET lv == decode_varint(data, offset)
           length == lv.value
           pos == lv.pos
       IN  IF StreamStops(data, pos, length)
           THEN /\ pc' = "extract"
                /\ UNCHANGED <<offset, raw_messages, messages>>
           ELSE LET msg_data == Slice(data, pos, pos + length)
                    dec == decode_message(msg_data)
                IN  /\ raw_messages' =
                          Append(raw_messages,
                                 [length |-> length, raw |-> msg_data])
                    /\ offset' = pos + length
                    /\ messages' = IF ~dec.none /\ dec.fields # <<>>
                                   THEN Append(messages, dec.fields)
                                   ELSE messages
                    /\ UNCHANGED pc
    /\ UNCHANGED <<data, decoded, call, footer, players, max_sync_time, raised, json,
                   entityVars, buildVars, factionVars, timeVars,
                   optionVars, webVars>>

\* The loop condition fails: the body is used up.
EndOfBody ==
    /\ pc = "read_record"
    /\ offset >= Len(data)
    /\ pc' = "extract"
    /\ UNCHANGED <<entityVars, decodeVars, buildVars, parseVars, factionVars, timeVars,
                   optionVars, webVars>>

NextStream == ReadRecord \/ EndOfBody

SpecStream == InitStream /\ [][NextStream]_vars

\* The index of the last byte of the length prefix that starts at position
\* p (from 0), and the length it declares.
PrefixEnd(p) ==
    LET ends == {i \in (p + 1)..Len(data) : data[i] < 128}
    IN  IF ends = {} THEN Len(data) ELSE SetMin(ends)

RECURSIVE PrefixValue(_, _)
PrefixValue(from, to) ==
    IF from > to THEN 0
    ELSE (data[from] % 128) + 128 * PrefixValue(from + 1, to)

DeclaredLength(p) == PrefixValue(p + 1, PrefixEnd(p))

\* A whole record starts at position p: its declared length is positive and
\* its bytes lie within the body.
WholeRecordAt(p) ==
    /\ p < Len(data)
    /\ DeclaredLength(p) > 0
    /\ PrefixEnd(p) + DeclaredLength(p) <= Len(data)

\* The position at which the k-th kept record starts (k from 1), the first
\* at 0 and each one where the one before it ends.
RECURSIVE StartOf(_)
StartOf(k) ==
    IF k = 1 THEN 0
    ELSE PrefixEnd(StartOf(k - 1)) + raw_messages[k - 1].length

\* C14: the body is split into length-prefixed records in order; at the
\* first length L <= 0 or record whose declared length extends past the end
\* of the body the stream stops without raising, and every record before
\* that point is kept, in order, with its raw bytes.
C14_RecordStream ==
    /\ raised = None
    /\ \A k \in DOMAIN raw_messages :
          /\ WholeRecordAt(StartOf(k))
          /\ raw_messages[k].length = DeclaredLength(StartOf(k))
          /\ raw_messages[k].raw =
                Slice(data, PrefixEnd(StartOf(k)),
                      PrefixEnd(StartOf(k)) + raw_messages[k].length)
    /\ offset = StartOf(Len(raw_messages) + 1)
    /\ pc = "extract" => ~WholeRecordAt(offset)

\* Two records were kept and the stream stopped at a length of 0 before the
\* end of the body.
C14_Witness ==
    /\ pc = "extract"
    /\ Len(raw_messages) = 2
    /\ raw_messages[1].raw # raw_messages[2].raw
    /\ offset < Len(data)
    /\ DeclaredLength(offset) = 0

\* ---- Specification of the roll-ups of the action list ------------------

MaxRollup == 3

\* A COMMAND action of actor p at frame f that casts ability id, named name.
CastAction(p, f, id, name) ==
    [type |-> "COMMAND", player_id |-> p, frame |-> f, time |-> frame_to_time(f),
     build_type |-> 0, build_type_name |-> NoName,
     ability_pos_index |-> 0, ability_id |-> id, ability_name |-> name,
     target_type_name |-> NoName, x |-> -1, y |-> -1]

\* A placement or a use of a spawn capability, which carries no ability.
Uncast(a) == [ability_id |-> 0] @@ a

FORGE_UPGRADE == <<"Forge", "_", "Upgrade">>
EXPLODER == <<"StormgateAbility", "Create", "Tier", "2", "Exploder">>
TIER9 == <<"StormgateAbility", "Create", "Tier", "9", "Research">>

\* Forge_Upgrade cast by player 1 under id 15 at frames 2048 and 1024 and
\* under id 16, by player 2, by the sentinel and by actor 0; MorphToHQTier2
\* cast in a record without frame; a SYNC action that carries the name; two
\* rewards, one of them without frame; BarracksSpawn cast at two frames and
\* without frame; a Barracks Annex placed at frame 2048 and in a record
\* without frame; BarracksSpawn used on a target at frame 1024.
RollupInputs ==
    {CastAction(1, 2048, 15, FORGE_UPGRADE),
     CastAction(1, 1024, 15, FORGE_UPGRADE),
     CastAction(1, 1024, 16, FORGE_UPGRADE),
     CastAction(2, 1024, 15, FORGE_UPGRADE),
     CastAction(SENTINEL, 1024, 15, FORGE_UPGRADE),
     CastAction(0, 1024, 15, FORGE_UPGRADE),
     CastAction(1, NoFrame, 12, <<"MorphTo", "HQ", "Tier", "2">>),
     [CastAction(1, 1024, 15, FORGE_UPGRADE) EXCEPT !.type = "SYNC"],
     CastAction(1, 2048, 17, EXPLODER),
     CastAction(1, NoFrame, 18, TIER9),
     CastAction(1, 2048, 11, <<"Barracks", "Spawn">>),
     CastAction(1, 1024, 11, <<"Barracks", "Spawn">>),
     CastAction(1, NoFrame, 11, <<"Barracks", "Spawn">>),
     Uncast(BuildAction(1, 2048, 1, 22, NoName, 5)),
     Uncast(BuildAction(1, NoFrame, 2, 22, NoName, 5)),
     Uncast(SpawnAction(1, 1024, <<"Barracks", "Spawn">>))}

\* After parse(): the action list is complete.
InitRollup ==
    /\ pc = "parsed"
    /\ actions \in ActionLists(RollupInputs, MaxRollup)
    /\ buildings_json = TRUE
    /\ building_orders = <<>>
    /\ player_upgrades = <<>>
    /\ stormgate_rewards = <<>>
    /\ unit_production_timeline = <<>>
    /\ EntityUnused /\ DecodeUnused /\ ParseUnused /\ FactionUnused /\ TimeUnused
    /\ OptionUnused /\ WebUnused

RollupBuildingOrders ==
    /\ pc = "parsed"
    /\ building_orders' = get_building_orders(actions, buildings_json)
    /\ pc' = "building_orders"
    /\ UNCHANGED <<actions, buildings_json, rollupVars,
                   entityVars, decodeVars, parseVars, factionVars, timeVars,
                   optionVars, webVars>>

GetPlayerUpgrades ==
    /\ pc = "parsed"
    /\ player_upgrades' = get_player_upgrades(actions)
    /\ pc' = "player_upgrades"
    /\ UNCHANGED <<actions, buildings_json, building_orders, stormgate_rewards,
                   unit_production_timeline,
                   entityVars, decodeVars, parseVars, factionVars, timeVars,
                   optionVars, webVars>>

\* The module-level function on the same list.
ExtractPlayerUpgrades ==
    /\ pc = "parsed"
    /\ player_upgrades' = extract_player_upgrades(actions)
    /\ pc' = "extract_player_upgrades"
    /\ UNCHANGED <<actions, buildings_json, building_orders, stormgate_rewards,
                   unit_production_timeline,
                   entityVars, decodeVars, parseVars, factionVars, timeVars,
                   optionVars, webVars>>

GetStormgateRewards ==
    /\ pc = "parsed"
    /\ stormgate_rewards' = get_stormgate_rewards(actions)
    /\ pc' = "stormgate_rewards"
    /\ UNCHANGED <<actions, buildings_json, building_orders, player_upgrades,
                   unit_production_timeline,
                   entityVars, decodeVars, parseVars, factionVars, timeVars,
                   optionVars, webVars>>

\* The module-level function on the same list.
ExtractStormgateRewards ==
    /\ pc = "parsed"
    /\ stormgate_rewards' = extract_stormgate_rewards(actions)
    /\ pc' = "extract_stormgate_rewards"
    /\ UNCHANGED <<actions, buildings_json, building_orders, player_upgrades,
                   unit_production_timeline,
                   entityVars, decodeVars, parseVars, factionVars, timeVars,
                   optionVars, webVars>>

GetUnitProduction ==
    /\ pc = "parsed"
    /\ unit_production_timeline' = get_unit_production(actions)
    /\ pc' = "unit_production"
    /\ UNCHANGED <<actions, buildings_json, building_orders, player_upgrades,
                   stormgate_rewards,
                   entityVars, decodeVars, parseVars, factionVars, timeVars,
                   optionVars, webVars>>

NextRollup ==
    \/ RollupBuildingOrders
    \/ GetPlayerUpgrades
    \/ ExtractPlayerUpgrades
    \/ GetStormgateRewards
    \/ ExtractStormgateRewards
    \/ GetUnitProduction

SpecRollup == InitRollup /\ [][NextRollup]_vars

\* Whether the i-th action of the list is a COMMAND of an actor other than
\* the sentinel whose ability name holds an upgrade keyword and does not
\* begin with the reward prefix.
UpgradeCandidate(i) ==
    LET a == actions[i]
        name == a.ability_name
    IN  /\ a.type = "COMMAND"
        /\ a.player_id >= 1 /\ a.player_id # 64
        /\ \E k \in DOMAIN name :
              \/ name[k] \in {"Research", "Upgrade", "MorphTo"}
              \/ name[k] = "Tier" /\ k < Len(name) /\ name[k + 1] \in {"2", "3"}
        /\ ~(name # <<>> /\ name[1] = "StormgateAbility")

\* The candidates with no earlier candidate of the same (actor, ability_id).
FirstCandidates ==
    {i \in DOMAIN actions :
        /\ UpgradeCandidate(i)
        /\ \A j \in 1..(i - 1) :
              UpgradeCandidate(j)
                => \/ actions[j].player_id # actions[i].player_id
                   \/ actions[j].ability_id # actions[i].ability_id}

\* C15: the upgrade events that get_player_upgrades and
\* extract_player_upgrades return are exactly those of the COMMAND actions
\* of a non-sentinel actor whose ability name holds an upgrade keyword, does
\* not begin with 'StormgateAbility', and has no earlier such action of the
\* same (actor, ability_id) in the list; each (actor, ability_id) appears
\* at most once.
C15_UpgradeEvents ==
    pc \in {"player_upgrades", "extract_player_upgrades"} =>
        /\ \A p \in DOMAIN player_upgrades :
              /\ Len(player_upgrades[p])
                   = Cardinality({i \in FirstCandidates : actions[i].player_id = p})
              /\ \A k \in DOMAIN player_upgrades[p] :
                    \E i \in FirstCandidates :
                        /\ actions[i].player_id = p
                        /\ actions[i].ability_id = player_upgrades[p][k].upgrade_id
                        /\ actions[i].frame = player_upgrades[p][k].frame
              /\ \A k1, k2 \in DOMAIN player_upgrades[p] :
                    k1 # k2 => player_upgrades[p][k1].upgrade_id
                                 # player_upgrades[p][k2].upgrade_id
        /\ DOMAIN player_upgrades = {actions[i].player_id : i \in FirstCandidates}

\* Player 1 casts Forge_Upgrade under id 15 twice, the second time at the
\* earlier frame, and a reward: the one event is that of the first cast.
C15_Witness ==
    /\ pc = "player_upgrades"
    /\ Len(actions) = 3
    /\ actions[1] = CastAction(1, 2048, 15, FORGE_UPGRADE)
    /\ actions[2] = CastAction(1, 2048, 17, EXPLODER)
    /\ actions[3] = CastAction(1, 1024, 15, FORGE_UPGRADE)
    /\ DOMAIN player_upgrades = {1}
    /\ Len(player_upgrades[1]) = 1
    /\ player_upgrades[1][1].frame = 2048
    /\ player_upgrades[1][1].upgrade_name = <<"Forge", " ", "Upgrade">>

\* Whether every two consecutive entries of a timeline are in frame order,
\* an entry without frame counting as frame 0.
InFrameOrder(timeline) ==
    \A k \in 1..(Len(timeline) - 1) :
        (IF timeline[k].frame = NoFrame THEN 0 ELSE timeline[k].frame)
          <= (IF timeline[k + 1].frame = NoFrame THEN 0 ELSE timeline[k + 1].frame)

\* C20: every per-player timeline that an analyzer returns (the build order
\* with its inferred entries, the upgrades, the rewards, the production) is
\* sorted by frame ascending, a missing frame counting as 0.
C20_TimelinesSorted ==
    /\ \A p \in DOMAIN building_orders : InFrameOrder(building_orders[p])
    /\ \A p \in DOMAIN player_upgrades : InFrameOrder(player_upgrades[p])
    /\ \A p \in DOMAIN stormgate_rewards : InFrameOrder(stormgate_rewards[p])
    /\ \A p \in DOMAIN unit_production_timeline :
          InFrameOrder(unit_production_timeline[p])

\* A Barracks Annex placed at frame 2048 and without frame, then a spawn at
\* frame 1024: the inferred Barracks, appended last, is listed between the
\* frameless placement and the one at frame 2048.
C20_Witness ==
    /\ pc = "building_orders"
    /\ 1 \in DOMAIN building_orders
    /\ Len(building_orders[1]) = 3
    /\ building_orders[1][1].frame = NoFrame
    /\ building_orders[1][2].inferred
    /\ building_orders[1][2].frame = 1024
    /\ building_orders[1][3].frame = 2048
    /\ actions[1].frame = 2048

\* C17: the player_factions roll-up of a parsed file has no entry keyed by
\* the sentinel actor id 64, whatever join records and footer entries the
\* file contains.
C17_NoSentinelRollup ==
    pc = "player_factions" => SENTINEL \notin DOMAIN factions

\* ------------------------------------------------------------------------
\* protobuf.py: gzip_header_len.  Positions count from 0 as in the source;
\* the result is [raised, pos].
\* ------------------------------------------------------------------------

\* flg & bit, for bit a power of two
FlagSet(flg, bit) == (flg \div bit) % 2 = 1

Raise(exc) == [raised |-> exc, pos |-> 0]

\* Whether the result so far is a position (nothing was raised).
Going(r) == r.raised = None

RECURSIVE ScanToZero(_, _)
\* while pos < len(data) and data[pos] != 0: pos += 1
ScanToZero(bytes, pos) ==
    IF pos < Len(bytes) /\ bytes[pos + 1] # 0 THEN ScanToZero(bytes, pos + 1)
    ELSE pos

\* The loop alone, without the step over the terminator.
SkipToZero(bytes, pos) == ScanToZero(bytes, pos)

\* A zero-terminated section: the loop, then pos += 1.
SkipZeroTerminated(bytes, pos) == ScanToZero(bytes, pos) + 1

\* FEXTRA: struct.unpack('<H', data[pos:pos+2]) and the two bounds tests.
SkipExtra(bytes, pos) ==
    IF pos + 2 > Len(bytes) THEN Raise("ValueError")
    ELSE LET xlen == bytes[pos + 1] + 256 * bytes[pos + 2]
         IN  IF pos + 2 + xlen > Len(bytes) THEN Raise("ValueError")
             ELSE [raised |-> None, pos |-> pos + 2 + xlen]

gzip_header_len(bytes) ==
    IF Len(bytes) < 10 THEN Raise("ValueError")
    ELSE IF Slice(bytes, 0, 2) # <<31, 139>> THEN Raise("ValueError")
    ELSE IF bytes[3] # 8 THEN Raise("ValueError")
    ELSE LET flg == bytes[4]
             extra == IF FlagSet(flg, 4) THEN SkipExtra(bytes, 10)
                      ELSE [raised |-> None, pos |-> 10]
             name == IF Going(extra) /\ FlagSet(flg, 8)
                     THEN [extra EXCEPT !.pos = SkipZeroTerminated(bytes, extra.pos)]
                     ELSE extra
             comment == IF Going(name) /\ FlagSet(flg, 16)
                        THEN [name EXCEPT !.pos = SkipZeroTerminated(bytes, name.pos)]
                        ELSE name
             crc == IF Going(comment) /\ FlagSet(flg, 2)
                    THEN [comment EXCEPT !.pos = comment.pos + 2]
                    ELSE comment
         IN  IF Going(crc) /\ crc.pos > Len(bytes) THEN Raise("ValueError")
             ELSE crc

\* ---- Specification of gzip_header_len -----------------------------------

MaxGzipTail == 6

\* A zero byte, the byte 1 and a letter.
GzipBytes == {0, 1, 65}

RECURSIVE GzipTails(_)
\* The byte strings of at most n bytes that follow the ten fixed bytes.
GzipTails(n) ==
    IF n = 0 THEN {<<>>}
    ELSE LET shorter == GzipTails(n - 1)
         IN  shorter \cup {Append(t, b) : t \in {x \in shorter : Len(x) = n - 1},
                                          b \in GzipBytes}

\* ID1 ID2 CM FLG MTIME(4) XFL OS
FixedHeader(id1, id2, cm, flg) == <<id1, id2, cm, flg, 0, 0, 0, 0, 0, 0>>

\* The magic and the method right or one of them wrong, with every value of
\* the low five flag bits and every tail; and the beginnings of a flagless
\* header that are shorter than ten bytes.
GzipInputs ==
    {FixedHeader(h[1], h[2], h[3], flg) \o t :
        h \in {<<31, 139, 8>>, <<0, 139, 8>>, <<31, 0, 8>>, <<31, 139, 0>>},
        flg \in 0..31, t \in GzipTails(MaxGzipTail)}
    \cup {SubSeq(FixedHeader(31, 139, 8, 0), 1, n) : n \in 0..9}

InitGzip ==
    /\ pc = "gzip_header_len"
    /\ data \in GzipInputs
    /\ offset = 0
    /\ decoded = None
    /\ call = Unused
    /\ raised = None
    /\ raw_messages = Unused /\ messages = Unused /\ footer = Unused
    /\ players = Unused /\ max_sync_time = Unused /\ json = Unused
    /\ EntityUnused /\ BuildUnused /\ FactionUnused /\ TimeUnused
    /\ OptionUnused /\ WebUnused

\* The call returns pos or raises.
GzipHeaderLen ==
    /\ pc = "gzip_header_len"
    /\ LET r == gzip_header_len(data)
       IN  /\ raised' = r.raised
           /\ decoded' = IF r.raised = None THEN r.pos ELSE decoded
           /\ pc' = IF r.raised = None THEN "returned" ELSE "raised"
    /\ UNCHANGED <<data, offset, call, raw_messages, messages, footer, players,
                   max_sync_time, json, entityVars, buildVars, factionVars, timeVars,
                   optionVars, webVars>>

NextGzip == GzipHeaderLen

SpecGzip == InitGzip /\ [][NextGzip]_vars

\* The flag byte, and whether the ten fixed bytes are acceptable.
Flg == data[4]

GoodFixedHeader ==
    Len(data) >= 10 /\ data[1] = 31 /\ data[2] = 139 /\ data[3] = 8

\* The lengths that the extra field can have (its two length bytes
\* included): the one its length bytes declare, if it lies inside the data.
ExtraLengths ==
    IF ~FlagSet(Flg, 4) THEN {0}
    ELSE {x \in 2..(Len(data) - 10) : x = 2 + data[11] + 256 * data[12]}

\* The lengths that a zero-terminated section starting at position start
\* can have (its zero byte included), if flag bit is set: it ends at the
\* first zero byte, which lies inside the data.
TextLengths(bit, start) ==
    IF ~FlagSet(Flg, bit) THEN {0}
    ELSE {n \in 1..(Len(data) - start) :
            /\ data[start + n] = 0
            /\ \A k \in 1..(n - 1) : data[start + k] # 0}

\* The lengths of the header CRC that starts at position start.
CrcLengths(start) ==
    IF ~FlagSet(Flg, 2) THEN {0}
    ELSE {h \in {2} : start + h <= Len(data)}

\* The layouts of the optional sections inside the data: extra field, file
\* name, comment and header CRC, in this order from position 10.
Layouts ==
    UNION {UNION {UNION {{<<x, n, c, h>> : h \in CrcLengths(10 + x + n + c)} :
                            c \in TextLengths(16, 10 + x + n)} :
                     n \in TextLengths(8, 10 + x)} :
              x \in ExtraLengths}

\* C18: gzip_header_len raises on fewer than 10 bytes, a wrong magic or a
\* method other than 8; otherwise it returns 10 plus the lengths of the
\* extra field, the file name, the comment and the header CRC, skipped in
\* this order, a value between 10 and len(data); and it raises when the
\* header runs past the data.
C18_GzipHeaderLen ==
    pc # "gzip_header_len" =>
        IF ~GoodFixedHeader \/ Layouts = {}
        THEN pc = "raised" /\ raised = "ValueError"
        ELSE /\ pc = "returned"
             /\ \A l \in Layouts : decoded = 10 + l[1] + l[2] + l[3] + l[4]
             /\ 10 <= decoded /\ decoded <= Len(data)

\* All four sections are present and the header ends with the data: an
\* extra field without content, an empty name, an empty comment and the CRC
\* 'AA'.
C18_Witness ==
    /\ pc = "returned"
    /\ Flg = 30
    /\ Len(data) = 16
    /\ data[15] = 65 /\ data[16] = 65
    /\ decoded = 16

\* A header whose file name has no zero byte before the data ends.
C18_WitnessRunsPast ==
    /\ pc = "raised"
    /\ GoodFixedHeader /\ Flg = 8
    /\ Len(data) = 12 /\ data[11] = 65 /\ data[12] = 65

\* ---- Specification of frame_to_time ------------------------------------

MaxSeconds == 150

MaxPastSeconds == 60

\* The frame 2^53 + k.
Past(k) == [py |-> "past", k |-> k]

\* None; the frames at the start, in the middle and at the end of each of
\* the first seconds; and frames at the start and the end of each of the
\* first seconds after 2^53.
TimeInputs ==
    {PyNone}
    \cup {PyInt(s * FRAME_RATE_HZ + r) : s \in 0..MaxSeconds, r \in {0, 512, 1023}}
    \cup {Past(s * FRAME_RATE_HZ + r) :
            s \in 0..MaxPastSeconds, r \in {0, 1, 2, 3, 1021, 1022, 1023}}

InitTime ==
    /\ pc = "frame_to_time"
    /\ frame_arg \in TimeInputs
    /\ time_ret = None
    /\ EntityUnused /\ DecodeUnused /\ BuildUnused /\ ParseUnused /\ FactionUnused
    /\ OptionUnused /\ WebUnused

FrameToTime ==
    /\ pc = "frame_to_time"
    /\ time_ret' = CASE frame_arg.py = "None" -> frame_to_time(NoFrame)
                     [] frame_arg.py = "int" -> frame_to_time(frame_arg.int)
                     [] frame_arg.py = "past" -> frame_to_time_past(frame_arg.k)
    /\ pc' = "returned"
    /\ UNCHANGED <<frame_arg, entityVars, decodeVars, buildVars, parseVars,
                   factionVars, optionVars, webVars>>

NextTime == FrameToTime

SpecTime == InitTime /\ [][NextTime]_vars

\* The whole seconds of a frame, at 1024 frames a second; of the frame
\* 2^53 + k they are 2^43 + k div 1024, and 2^43 = 146601550370 * 60 + 8.
WholeSeconds(f) == f \div 1024

\* C19: for every non-negative integer frame f, frame_to_time gives the
\* minutes (f div 1024) div 60 and the seconds (f div 1024) mod 60, and for
\* None it gives 00:00.
C19_FrameToTime ==
    pc = "returned" =>
        CASE frame_arg.py = "None" -> time_ret = <<0, 0>>
          [] frame_arg.py = "int" ->
                time_ret = <<WholeSeconds(frame_arg.int) \div 60,
                             WholeSeconds(frame_arg.int) % 60>>
          [] frame_arg.py = "past" ->
                /\ time_ret[1].giga = 146
                /\ time_ret[1].units
                     = 601550370 + (8 + WholeSeconds(frame_arg.k)) \div 60
                /\ time_ret[2] = (8 + WholeSeconds(frame_arg.k)) % 60

\* ------------------------------------------------------------------------
\* replay_analyzers.py: extract_game_result.  The result is the returned
\* dict, with raised = None, or the exception.
\* ------------------------------------------------------------------------

\* The value at key '2' of a footer entry whose name bytes the decoder read
\* as a nested message (as it reads b'Xia'): the dict {'11': 105}.
NestedName == <<"{'11': 105}">>

\* name_to_slot.get(name) hashes the name.
NameRaises(name) == name = NestedName

\* {name: slot for slot, name in players.items()}.get(name): the slot of the
\* name, 0 for None.  The player maps of this specification bind no name
\* twice.
NameToSlot(pl, name) ==
    IF \E slot \in DOMAIN pl : pl[slot] = name
    THEN CHOOSE slot \in DOMAIN pl : pl[slot] = name
    ELSE 0

RECURSIVE ResultLoop(_, _, _, _)
\* for p in footer_players, from the i-th entry on.
ResultLoop(footer_players, i, pl, res) ==
    IF i > Len(footer_players) \/ res.raised # None THEN res
    ELSE LET p == footer_players[i]
         IN  IF p.py # "dict" THEN ResultLoop(footer_players, i + 1, pl, res)
             ELSE IF p.name = NoName THEN ResultLoop(footer_players, i + 1, pl, res)
             ELSE IF NameRaises(p.name) THEN [res EXCEPT !.raised = "TypeError"]
             ELSE LET slot == NameToSlot(pl, p.name)
                      keyed(verdict) ==
                          IF slot # 0
                          THEN DictPut(res.player_results, ToString(slot), verdict)
                          ELSE res.player_results
                  IN  ResultLoop(footer_players, i + 1, pl,
                          CASE p.f4 = 1 ->
                                 [res EXCEPT !.winners = Append(@, p.name),
                                             !.player_results = keyed("win"),
                                             !.winner_team =
                                                 IF p.team # Absent /\ p.team # 0
                                                 THEN p.team ELSE @]
                            [] p.f4 = 2 ->
                                 [res EXCEPT !.losers = Append(@, p.name),
                                             !.player_results = keyed("loss")]
                            [] OTHER -> res)

extract_game_result(ftr, pl) ==
    LET result == [result |-> "unknown", winners |-> <<>>, losers |-> <<>>,
                   player_results |-> <<>>, winner_team |-> Absent,
                   raised |-> None]
        footer_players == IF ~HasPlayerArray(ftr) THEN <<>>
                          ELSE IF ftr.tag3.py = "list" THEN ftr.tag3.items
                          ELSE <<ftr.tag3>>
        res == ResultLoop(footer_players, 1, pl, result)
    IN  IF ftr.py = "None" THEN result
        ELSE IF res.raised # None THEN res
        ELSE IF res.winners # <<>>
        THEN [res EXCEPT !.result = "complete"]
        ELSE [res EXCEPT !.winner_team = Absent]

\* ---- Specification of extract_game_result ------------------------------

MaxResultEntries == 2

\* Alice winning on team 1 and losing, Bob losing, Carol (who is in no
\* player map) winning, Alice without tag 4, a nameless winner, a winner
\* whose name was decoded as a nested message, and an entry that is not a
\* dict.
ResultEntries ==
    {FooterPlayer(1, <<"Alice">>, 1, Absent, 1),
     FooterPlayer(1, <<"Alice">>, 1, Absent, 2),
     FooterPlayer(2, <<"Bob">>, 2, Absent, 2),
     FooterPlayer(3, <<"Carol">>, Absent, Absent, 1),
     FooterPlayer(1, <<"Alice">>, 1, Absent, Absent),
     FooterPlayer(1, NoName, Absent, Absent, 1),
     FooterPlayer(1, NestedName, Absent, Absent, 1),
     PyInt(5)}

\* No footer; a footer without key '3'; key '3' a single entry, which
\* simplify_protobuf hands on without a list; key '3' a list.
ResultFooters ==
    {PyNone, FooterWith(PyNone)}
    \cup {FooterWith(e) : e \in ResultEntries}
    \cup {FooterWith(PyList(l)) : l \in ActionLists(ResultEntries, MaxResultEntries)}

\* No player known; Alice and Bob at slots 1 and 2; Bob and Alice at slots
\* 1 and 2.
ResultPlayers ==
    {<<>>, <<<<"Alice">>, <<"Bob">>>>, <<<<"Bob">>, <<"Alice">>>>}

InitResult ==
    /\ pc = "extract_game_result"
    /\ footer \in ResultFooters
    /\ players \in ResultPlayers
    /\ json = None
    /\ raised = None
    /\ raw_messages = Unused /\ messages = Unused /\ max_sync_time = Unused
    /\ EntityUnused /\ DecodeUnused /\ BuildUnused /\ FactionUnused /\ TimeUnused
    /\ OptionUnused /\ WebUnused

\* The call returns the result dict or raises.
ExtractGameResult ==
    /\ pc = "extract_game_result"
    /\ LET r == extract_game_result(footer, players)
       IN  /\ raised' = r.raised
           /\ json' = IF r.raised = None THEN r ELSE json
           /\ pc' = IF r.raised = None THEN "returned" ELSE "raised"
    /\ UNCHANGED <<raw_messages, messages, footer, players, max_sync_time,
                   entityVars, decodeVars, buildVars, factionVars, timeVars,
                   optionVars, webVars>>

NextResult == ExtractGameResult

SpecResult == InitResult /\ [][NextResult]_vars

\* The entries of footer field 3: those of the list, or the one entry.
FooterEntriesOf ==
    IF footer.py = "None" \/ footer.tag3.py = "None" THEN <<>>
    ELSE IF footer.tag3.py = "list" THEN footer.tag3.items
    ELSE <<footer.tag3>>

\* The names of the dict entries that have a name and the given tag 4, in
\* the order of the entries.
NamedWith(f4) ==
    LET es == FooterEntriesOf
        marked == SelectSeq(es, LAMBDA e : IF e.py = "dict"
                                           THEN e.name # <<>> /\ e.f4 = f4
                                           ELSE FALSE)
    IN  [k \in DOMAIN marked |-> marked[k].name]

\* The last verdict of a name among the named entries with tag 4 = 1 or 2.
LastVerdict(name) ==
    LET es == FooterEntriesOf
        at == {k \in DOMAIN es : IF es[k].py = "dict"
                                 THEN es[k].name = name /\ es[k].f4 \in {1, 2}
                                 ELSE FALSE}
    IN  IF es[SetMax(at)].f4 = 1 THEN "win" ELSE "loss"

\* C16: with no footer extract_game_result returns 'unknown' and no winners
\* or losers; otherwise it returns, with every named dict entry of footer
\* field 3 whose tag 4 is 1 as a winner and every one whose tag 4 is 2 as a
\* loser, player_results keyed by the string slot that the player map gives
\* the name, and the result 'complete' exactly when there is a winner.
C16_GameResult ==
    pc # "extract_game_result" =>
        /\ pc = "returned"
        /\ footer.py = "None" =>
              /\ json.result = "unknown"
              /\ json.winners = <<>> /\ json.losers = <<>>
        /\ json.winners = NamedWith(1)
        /\ json.losers = NamedWith(2)
        /\ {json.player_results[k].k : k \in DOMAIN json.player_results}
             = {ToString(slot) : slot \in {s \in DOMAIN players :
                   \E f4 \in {1, 2} : \E k \in DOMAIN NamedWith(f4) :
                       NamedWith(f4)[k] = players[s]}}
        /\ \A k \in DOMAIN json.player_results :
              \E slot \in DOMAIN players :
                  /\ json.player_results[k].k = ToString(slot)
                  /\ json.player_results[k].v = LastVerdict(players[slot])
        /\ json.result = "complete" <=> json.winners # <<>>

\* ---- Specification of the decoder's loop, one iteration a step ----------

MaxLoopBytes == 4

\* The tags of field 0 with wire types 0 to 6 (0x03 starts a group and 0x04
\* ends it), which are also small values and lengths, the end-group tag of
\* field 1 (0x0C) and a continuation byte.
LoopBytes == {0, 1, 2, 3, 4, 5, 6, 12, 128}

RECURSIVE LoopStrings(_)
LoopStrings(n) ==
    IF n = 0 THEN {<<>>}
    ELSE LET shorter == LoopStrings(n - 1)
         IN  shorter \cup {Append(s, b) : s \in {x \in shorter : Len(x) = n - 1},
                                          b \in LoopBytes}

\* The calls _decode_message_internal(data, depth, end_group_field=...): the
\* top-level call, a group body of field 0 or of field 1, and the calls at
\* and past the greatest depth.
LoopCalls ==
    {[depth |-> 0, end_group_field |-> e] : e \in {-1, 0, 1}}
    \cup {[depth |-> d, end_group_field |-> -1] :
              d \in {MAX_DEPTH, MAX_DEPTH + 1}}

InitLoop ==
    /\ pc = "call"
    /\ data = <<>>
    /\ call = [depth |-> 0, end_group_field |-> -1]
    /\ offset = 0
    /\ decoded = [none |-> FALSE, result |-> <<>>, consumed |-> 0]
    /\ EntityUnused /\ BuildUnused /\ ParseUnused /\ FactionUnused /\ TimeUnused
    /\ OptionUnused /\ WebUnused

\* Four continuation bytes in a row: a varint of five bytes or more, whose
\* value is past the integers of the model.
FiveByteVarint(x) ==
    \E i \in 1..(Len(x) - 3) : \A j \in i..(i + 3) : x[j] >= 128

\* _decode_message_internal is called on some bytes.
CallDecode ==
    /\ pc = "call"
    /\ data' \in {x \in LoopStrings(MaxLoopBytes) : ~FiveByteVarint(x)}
    /\ call' \in LoopCalls
    /\ pc' = "enter"
    /\ UNCHANGED <<offset, decoded, entityVars, buildVars, parseVars,
                   factionVars, timeVars,
                   optionVars, webVars>>

\* The test of depth and the assignments before the loop.
EnterDecode ==
    /\ pc = "enter"
    /\ IF call.depth > MAX_DEPTH
       THEN /\ decoded' = [none |-> TRUE, result |-> <<>>, consumed |-> 0]
            /\ pc' = "returned"
       ELSE /\ pc' = "loop"
            /\ UNCHANGED decoded
    /\ UNCHANGED <<data, offset, call, entityVars, buildVars, parseVars,
                   factionVars, timeVars,
                   optionVars, webVars>>

\* One iteration of the while loop; offset is the cursor pos, which on a
\* break or return is the bytes_consumed that is returned.
LoopIteration ==
    /\ pc = "loop"
    /\ offset < Len(data)
    /\ LET s == DecodeStep(data, offset, decoded.result, call.depth,
                           call.end_group_field)
       IN  /\ offset' = s.pos
           /\ decoded' = [none |-> FALSE, result |-> s.result,
                          consumed |-> IF s.exit THEN s.pos ELSE 0]
           /\ pc' = IF s.exit THEN "returned" ELSE "loop"
    /\ UNCHANGED <<data, call, entityVars, buildVars, parseVars, factionVars,
                   timeVars,
                   optionVars, webVars>>

\* The loop condition fails: return result, pos.
LoopEnd ==
    /\ pc = "loop"
    /\ offset >= Len(data)
    /\ decoded' = [decoded EXCEPT !.consumed = offset]
    /\ pc' = "returned"
    /\ UNCHANGED <<data, offset, call, entityVars, buildVars, parseVars,
                   factionVars, timeVars,
                   optionVars, webVars>>

NextLoop == CallDecode \/ EnterDecode \/ LoopIteration \/ LoopEnd

SpecLoop == InitLoop /\ [][NextLoop]_vars

\* An iteration that stays in the loop moves the cursor forward, and never
\* past the end of the data.
CursorAdvances ==
    [][pc = "loop" /\ pc' = "loop" =>
           offset' > offset /\ offset' <= Len(data)]_vars

\* At the greatest depth no payload is decoded as a message and no group is
\* entered; past it the call returns None.
DepthCapped ==
    pc = "returned" =>
        /\ call.depth > MAX_DEPTH => decoded.none
        /\ call.depth = MAX_DEPTH =>
               \A e \in Range(decoded.result) : e.t \notin {"m", "g"}

\* Every iteration that stored a field consumed at least one byte, so a
\* call on n bytes makes n iterations at most.
IterationsBounded ==
    pc \in {"loop", "returned"} =>
        Len(decoded.result) <= offset /\ offset <= Len(data)

\* C23: every iteration of the loop of _decode_message_internal either
\* moves the cursor strictly forward or leaves the loop, whatever the wire
\* type (a group with an empty or unterminated body, a truncated fixed or
\* length-delimited field), and the recursion depth is capped, so the call
\* returns on every byte string: the cursor never passes the end of the
\* data, which bounds the number of iterations.
C23_DecoderTerminates ==
    /\ CursorAdvances
    /\ []DepthCapped
    /\ []IterationsBounded

\* The call returned after two iterations: a group of field 0 whose body is
\* a truncated fixed32 and is not terminated, then a varint cut short by
\* the end of the data.
C23_Witness ==
    /\ pc = "returned"
    /\ data = <<3, 5, 0>>
    /\ call = [depth |-> 0, end_group_field |-> -1]
    /\ decoded = [none |-> FALSE,
                  result |-> <<[fn |-> 0, t |-> "g", v |-> <<>>],
                               [fn |-> 0, t |-> "v", v |-> 0]>>,
                  consumed |-> 3]

\* ---- Specification of decode_varint on long varints --------------------

MaxWideBytes == 11

\* 0x01 ends a varint; 0x80 and 0xFF continue it, with a group of zeros and
\* a group of ones.
WideBytes == {1, 128, 255}

RECURSIVE WideStrings(_)
WideStrings(n) ==
    IF n = 0 THEN {<<>>}
    ELSE LET shorter == WideStrings(n - 1)
         IN  shorter \cup {Append(x, b) : x \in {y \in shorter : Len(y) = n - 1},
                                          b \in WideBytes}

RECURSIVE WideVarintLoop(_, _, _, _)
\* The while loop of decode_varint with result held as its base-128 digits,
\* least significant first: (b & 0x7f) << shift is the digit of place
\* shift / 7, and the places the loop writes are all distinct, so the or is
\* an append.  shifted is the greatest shift applied (-1 when none was).
WideVarintLoop(bytes, pos, result, shift) ==
    IF pos >= Len(bytes)
    THEN [digits |-> result, pos |-> pos, shifted |-> shift - 7]
    ELSE LET b == bytes[pos + 1]
             r == Append(result, b % 128)
         IN  IF b < 128 THEN [digits |-> r, pos |-> pos + 1, shifted |-> shift]
             ELSE WideVarintLoop(bytes, pos + 1, r, shift + 7)

InitWide ==
    /\ pc = "decode_varint"
    /\ data \in WideStrings(MaxWideBytes)
    /\ offset = 0
    /\ decoded = Unused
    /\ call = Unused
    /\ EntityUnused /\ BuildUnused /\ ParseUnused /\ FactionUnused /\ TimeUnused
    /\ OptionUnused /\ WebUnused

DecodeWideVarint ==
    /\ pc = "decode_varint"
    /\ decoded' = WideVarintLoop(data, offset, <<>>, 0)
    /\ pc' = "varint_decoded"
    /\ UNCHANGED <<data, offset, call, entityVars, buildVars, parseVars,
                   factionVars, timeVars,
                   optionVars, webVars>>

NextWide == DecodeWideVarint

SpecWide == InitWide /\ [][NextWide]_vars

\* The number with these base-128 digits is below 2^64 = 2 * 128^9.
BelowTwoTo64(digits) ==
    \A i \in DOMAIN digits :
        /\ i = 10 => digits[i] <= 1
        /\ i > 10 => digits[i] = 0

\* C24: decode_varint never applies a shift greater than 63, so that for
\* every byte string, one with more than ten continuation bytes in a row
\* included, the decoded value is below 2^64.
C24_ShiftAtMost63 ==
    pc = "varint_decoded" =>
        /\ decoded.shifted <= 63
        /\ BelowTwoTo64(decoded.digits)

\* ------------------------------------------------------------------------
\* protobuf.py: simplify_protobuf.  A simplified dict is the sequence of its
\* [k, v] items, k being str(field number).
\* ------------------------------------------------------------------------

HexDigits == <<"0", "1", "2", "3", "4", "5", "6", "7", "8", "9",
               "a", "b", "c", "d", "e", "f">>

\* bytes.hex(): two digits a byte, the high one first.
Hex(bytes) ==
    [i \in 1..(2 * Len(bytes)) |->
        LET b == bytes[(i + 1) \div 2]
        IN  IF i % 2 = 1 THEN HexDigits[(b \div 16) + 1]
            ELSE HexDigits[(b % 16) + 1]]

\* raw[:bytes_hex_limit]
Preview(raw, hex_limit) ==
    SubSeq(raw, 1, IF Len(raw) < hex_limit THEN Len(raw) ELSE hex_limit)

\* The branch t == 'b' of simplify_protobuf: the length is read from the
\* leaf's 'len' and the bytes from its 'raw', each with a default when the
\* leaf has no such key.
BytesSummary(obj, with_bytes, hex_limit) ==
    LET n == IF "len" \in DOMAIN obj THEN obj.len ELSE 0
        raw == IF "raw" \in DOMAIN obj /\ obj.raw # <<>> THEN obj.raw ELSE <<>>
    IN  IF ~with_bytes THEN [py |-> "_bytes", n |-> n]
        ELSE [py |-> "_hex",
              n |-> IF raw # <<>> THEN Len(raw) ELSE n,
              hex |-> Hex(Preview(raw, hex_limit)),
              truncated |-> IF raw # <<>> THEN Len(raw) > hex_limit
                            ELSE n > hex_limit]

SIMPLIFY_DEPTH == 20

RECURSIVE SimplifyFields(_, _, _, _)

\* simplify_protobuf on a typed leaf (a dict with 't'), of the types the
\* decoder produces.
SimplifyEntry(obj, depth, with_bytes, hex_limit) ==
    IF depth > SIMPLIFY_DEPTH THEN PyNone
    ELSE CASE obj.t = "v" -> PyInt(obj.v)
           [] obj.t = "s" -> PyStr(obj.v)
           [] obj.t \in {"m", "g"} ->
                  SimplifyFields(obj.v, depth + 1, with_bytes, hex_limit)
           [] obj.t = "b" -> BytesSummary(obj, with_bytes, hex_limit)
           [] OTHER -> PyEntry(obj)

\* simplify_protobuf on a field dict: a key that holds several leaves gives
\* the list of their simplified forms.
SimplifyFields(fields, depth, with_bytes, hex_limit) ==
    IF depth > SIMPLIFY_DEPTH THEN PyNone
    ELSE LET keys == KeysOf(fields, 1, <<>>)
             item(fn) ==
                 LET vals == pb_get(fields, fn)
                 IN  IF Len(vals) = 1
                     THEN SimplifyEntry(vals[1], depth + 1, with_bytes,
                                        hex_limit)
                     ELSE PyList([j \in DOMAIN vals |->
                                     SimplifyEntry(vals[j], depth + 1,
                                                   with_bytes, hex_limit)])
         IN  PyDict([i \in DOMAIN keys |->
                        [k |-> ToString(keys[i]), v |-> item(keys[i])]])

\* simplify_protobuf(obj, include_bytes=..., bytes_hex_limit=...) on a
\* decoded message.
simplify_protobuf(fields, with_bytes, hex_limit) ==
    SimplifyFields(fields, 0, with_bytes, hex_limit)

\* ------------------------------------------------------------------------
\* parse_sgreplay.py: load(), the decoding of the bytes after the trailer
\* ------------------------------------------------------------------------

\* 'if not m' with the empty tree taken for a message.
FooterRecordIsNone(m) == m.none

\* 'if not m': decode_message gave None or the empty tree.
FooterRecordFails(m) == m.none \/ m.fields = <<>>

RECURSIVE FooterStreamLoop(_, _, _)

\* One record of the loop, m being the decoded bytes of the record that
\* ends at next_pos: 'if not m' empties footer_msgs and leaves the loop.
FooterStreamRecord(region, pos, next_pos, footer_msgs, m) ==
    IF FooterRecordFails(m)
    THEN [footer_msgs |-> <<>>, pos |-> pos]
    ELSE FooterStreamLoop(region, next_pos, Append(footer_msgs, m.fields))

\* The length prefix lp of the record at pos: a length that is not positive
\* or reaches past the region empties footer_msgs and leaves the loop.
FooterStreamPrefix(region, pos, lp, footer_msgs) ==
    IF lp.value <= 0 \/ lp.pos + lp.value > Len(region)
    THEN [footer_msgs |-> <<>>, pos |-> pos]
    ELSE FooterStreamRecord(region, pos, lp.pos + lp.value, footer_msgs,
             decode_message(Slice(region, lp.pos, lp.pos + lp.value)))

\* The while loop of the length-prefixed attempt: footer_msgs and pos when
\* it is left.
FooterStreamLoop(region, pos, footer_msgs) ==
    IF pos >= Len(region) THEN [footer_msgs |-> footer_msgs, pos |-> pos]
    ELSE FooterStreamPrefix(region, pos, decode_varint(region, pos),
                            footer_msgs)

FOOTER_STREAM == "_footer_stream"

\* The single-message attempt, single being decode_message(region).
FooterSingle(single, with_bytes, hex_limit) ==
    IF single.none \/ single.fields = <<>>
    THEN [footer_protobuf |-> PyNone, footer |-> PyNone]
    ELSE [footer_protobuf |-> PyDict(single.fields),
          footer |-> simplify_protobuf(single.fields, with_bytes, hex_limit)]

\* The outcome of the length-prefixed attempt, stream, is taken when it
\* holds a record and reached the end of the region; otherwise the region
\* is tried as one message.
FooterStreamOrSingle(region, stream, with_bytes, hex_limit) ==
    IF stream.footer_msgs # <<>> /\ stream.pos = Len(region)
    THEN [footer_protobuf |->
              PyDict(<<[k |-> FOOTER_STREAM,
                        v |-> PyList(stream.footer_msgs)]>>),
          footer |->
              PyDict(<<[k |-> FOOTER_STREAM,
                        v |-> PyList([i \in DOMAIN stream.footer_msgs |->
                                  simplify_protobuf(stream.footer_msgs[i],
                                      with_bytes, hex_limit)])]>>)]
    ELSE FooterSingle(decode_message(region), with_bytes, hex_limit)

\* footer_protobuf and footer as load() leaves them for the bytes
\* extra_after_trailer.
decode_footer(region, with_bytes, hex_limit) ==
    IF region = <<>> THEN [footer_protobuf |-> PyNone, footer |-> PyNone]
    ELSE FooterStreamOrSingle(region, FooterStreamLoop(region, 0, <<>>),
                              with_bytes, hex_limit)

\* ---- Specification of the footer decoding of load() --------------------

MaxFooterBytes == 5

\* Lengths 0, 1 and 2, the tags 0x00, 0x08 (varints), 0x09 (fixed64) and
\* 0x0A (length-delimited), and 0xFF, which is no utf-8.
FooterBytes == {0, 1, 2, 8, 9, 10, 255}

RECURSIVE FooterRegions(_)
FooterRegions(n) ==
    IF n = 0 THEN {<<>>}
    ELSE LET shorter == FooterRegions(n - 1)
         IN  shorter \cup {Append(x, b) : x \in {y \in shorter : Len(y) = n - 1},
                                          b \in FooterBytes}

\* A parser whose extra_after_trailer is data; bytes_hex_limit has its
\* default or is 1.
InitFooter ==
    /\ pc = "load"
    /\ data \in {x \in FooterRegions(MaxFooterBytes) : ~FiveByteVarint(x)}
    /\ include_bytes \in BOOLEAN
    /\ bytes_hex_limit \in {1, 64}
    /\ offset = 0
    /\ decoded = PyNone
    /\ footer = PyNone
    /\ call = Unused
    /\ raw_messages = Unused /\ messages = Unused
    /\ players = Unused /\ max_sync_time = Unused /\ raised = Unused
    /\ json = Unused
    /\ EntityUnused /\ BuildUnused /\ FactionUnused /\ TimeUnused /\ WebUnused

\* load() from 'self.footer_protobuf = None' on; decoded is
\* self.footer_protobuf.
LoadFooter ==
    /\ pc = "load"
    /\ \E r \in {decode_footer(data, include_bytes, bytes_hex_limit)} :
          /\ decoded' = r.footer_protobuf
          /\ footer' = r.footer
    /\ pc' = "loaded"
    /\ UNCHANGED <<data, offset, call, raw_messages, messages, players,
                   max_sync_time, raised, json, entityVars, buildVars,
                   factionVars, timeVars, optionVars, webVars>>

NextFooter == LoadFooter

SpecFooter == InitFooter /\ [][NextFooter]_vars

\* The record that starts at p of the region: a one-varint length above 0,
\* bytes that lie within the region and decode to a tree with a field.
FooterRecordAt(p) ==
    /\ PrefixEnd(p) <= Len(data)
    /\ DeclaredLength(p) > 0
    /\ PrefixEnd(p) + DeclaredLength(p) <= Len(data)
    /\ decode_message(Slice(data, PrefixEnd(p),
                            PrefixEnd(p) + DeclaredLength(p))).fields # <<>>

\* The starts of the records that tile the region from p on, if the length
\* prefixes tile it exactly; <<-1>> if they do not.
RECURSIVE TilesFrom(_)
TilesFrom(p) ==
    IF p = Len(data) THEN <<>>
    ELSE IF ~FooterRecordAt(p) THEN <<-1>>
    ELSE LET rest == TilesFrom(PrefixEnd(p) + DeclaredLength(p))
         IN  IF rest = <<-1>> THEN rest ELSE <<p>> \o rest

Tiled == data # <<>> /\ TilesFrom(0) # <<-1>>

SimplifiedRecordAt(p) ==
    simplify_protobuf(
        decode_message(Slice(data, PrefixEnd(p),
                             PrefixEnd(p) + DeclaredLength(p))).fields,
        include_bytes, bytes_hex_limit)

\* C25: load() decodes the footer region as a stream of length-prefixed
\* messages only if the length prefixes tile the region exactly (every
\* length above 0, every record decoding to a tree that is not empty, the
\* last record ending at the last byte); in every other case the whole
\* region is decoded as one message; when both fail the footer stays unset.
C25_FooterDecoding ==
    pc = "loaded" =>
        IF Tiled
        THEN footer =
                 PyDict(<<[k |-> FOOTER_STREAM,
                           v |-> PyList([i \in DOMAIN TilesFrom(0) |->
                                     SimplifiedRecordAt(TilesFrom(0)[i])])]>>)
        ELSE IF decode_message(data).fields # <<>>
        THEN footer = simplify_protobuf(decode_message(data).fields,
                                        include_bytes, bytes_hex_limit)
        ELSE footer = PyNone /\ decoded = PyNone

\* A region of two records that tile it, <<8, 1>> and <<8>>, decoded as a
\* stream of two messages.
C25_Witness ==
    /\ pc = "loaded"
    /\ data = <<2, 8, 1, 1, 8>>
    /\ footer = PyDict(<<[k |-> FOOTER_STREAM,
                          v |-> PyList(<<PyDict(<<[k |-> "1", v |-> PyInt(1)]>>),
                                         PyDict(<<[k |-> "1", v |-> PyInt(0)]>>)
                                       >>)]>>)

\* What the simplified form of an opaque payload is said to be: its length,
\* and with include_bytes the hex of its first bytes_hex_limit bytes.
LengthKeepingSummary(payload) ==
    IF ~include_bytes THEN [py |-> "_bytes", n |-> Len(payload)]
    ELSE [py |-> "_hex", n |-> Len(payload),
          hex |-> Hex(Preview(payload, bytes_hex_limit)),
          truncated |-> Len(payload) > bytes_hex_limit]

\* C28: opaque bytes keep their length end to end: for every
\* length-delimited payload that the decoder classifies as Bytes, the
\* simplified form (here in the footer) reports _bytes equal to the
\* payload's length, and with include_bytes a hex preview of its first
\* bytes_hex_limit bytes.
C28_BytesKeepLength ==
    pc = "loaded" /\ ~Tiled /\ decoded # PyNone =>
        \A e \in Range(decoded.fields) :
            e.t = "b" /\ Len(pb_get(decoded.fields, e.fn)) = 1 =>
                DictGet(footer.fields, ToString(e.fn))
                    = LengthKeepingSummary(e.v)

\* ---- The action projector: one event per leaf under content -------------

\* The category said to belong to a child tag of content.
Category(tag) ==
    IF tag = 7 THEN "COMMAND"
    ELSE IF tag = 4 THEN "SPAWN"
    ELSE IF tag = 40 THEN "SYNC"
    ELSE IF tag = 37 THEN "PLAYER_JOIN"
    ELSE IF tag = 45 THEN "PROFILE"
    ELSE "FIELD_" \o ToString(tag)

\* The leaf entries under the content of record i, tag by tag.
ContentLeaves(i) ==
    LET content == get_nested(PyDict(messages[i]), <<3, 1>>).fields
    IN  ItemsOf(content, KeysOf(content, 1, <<>>), 1)

\* Tag and category of one event per leaf entry under content, over the
\* records from i on whose content is a message.
RECURSIVE LeafEvents(_)
LeafEvents(i) ==
    IF i > Len(messages) THEN <<>>
    ELSE (IF i \in WithContent
          THEN [k \in DOMAIN ContentLeaves(i) |->
                   [field |-> ContentLeaves(i)[k].fn,
                    type |-> Category(ContentLeaves(i)[k].fn)]]
          ELSE <<>>) \o LeafEvents(i + 1)

\* C26: for every record whose content (tag 3 -> child 1) is a message the
\* projector produces exactly one action per leaf entry under each child
\* tag of content, in record order, of category COMMAND for tag 7, SPAWN
\* for 4, SYNC for 40, PLAYER_JOIN for 37, PROFILE for 45 and FIELD_tag for
\* any other tag; so the number of actions is the number of leaf entries
\* under content over all such records.
C26_OneActionPerLeaf ==
    pc = "parsed" =>
        [k \in DOMAIN actions |->
            [field |-> actions[k].field, type |-> actions[k].type]]
        = LeafEvents(1)

\* ---- Specification of the entity tracker's type inference ---------------

MaxTyped == 3

\* COMMAND actions on entity 1: the ability used on it (target_type) is
\* none, BarracksSpawn, MorphToHQTier2 or attackData, the ability cast
\* (ability_id) none, BarracksSpawn, MorphToHQTier2 or
\* WorkerConstructAbilityData; the names come from the capability
\* dictionary.
TypedActions ==
    {[target_id |-> 1, frame |-> 0, time |-> frame_to_time(0),
      player_id |-> 1, target_type |-> tt, target_type_name |-> NoName,
      ability_id |-> ab, ability_name |-> NoName] :
        tt \in {0, 11, 12, 14}, ab \in {0, 11, 12, 13}}

InitInfer ==
    /\ pc = "record_action"
    /\ entities = <<>>
    /\ log = <<>>
    /\ DecodeUnused /\ BuildUnused /\ ParseUnused /\ FactionUnused /\ TimeUnused
    /\ OptionUnused /\ WebUnused

RecordTypedAction ==
    /\ pc = "record_action"
    /\ Len(log) < MaxTyped
    /\ \E action \in TypedActions :
          /\ entities' = record_action(entities, action)
          /\ log' = Append(log, action)
    /\ UNCHANGED <<pc, decodeVars, buildVars, parseVars, factionVars, timeVars,
                   optionVars, webVars>>

NextInfer == RecordTypedAction

SpecInfer == InitInfer /\ [][NextInfer]_vars

\* The names of one table that a histogram of the entity holds.
NamesIn(e, table) ==
    {c.name : c \in {x \in Range(e.abilities_used) \cup Range(e.abilities_cast) :
                        x.name \in DOMAIN table}}

\* C27: after any sequence of record_action calls on an entity, if one of
\* its histograms (used-on-target or cast-by) holds a spawn-structure name,
\* inferred_type is the structure of a spawn name it holds, also when a
\* morph name or a construct name is present; a construct name decides
\* only when no spawn name and no morph name is present.
C27_SpawnNameFirst ==
    \A t \in DOMAIN entities :
        LET e == entities[t]
        IN  /\ NamesIn(e, spawn_indicators) # {} =>
                  e.inferred_type \in
                      {spawn_indicators[n] : n \in NamesIn(e, spawn_indicators)}
            /\ e.inferred_type \in Range(construct_indicators) =>
                  /\ NamesIn(e, spawn_indicators) = {}
                  /\ NamesIn(e, morph_indicators) = {}

\* The tracker's entities after the actions of a sequence, in its order.
RECURSIVE Replay(_, _)
Replay(acts, ents) ==
    IF acts = <<>> THEN ents
    ELSE Replay(Tail(acts), record_action(ents, Head(acts)))

\* The orderings of the recorded actions.
Orderings ==
    {[i \in DOMAIN log |-> log[p[i]]] :
        p \in {q \in [DOMAIN log -> DOMAIN log] :
                  \A i, j \in DOMAIN log : q[i] = q[j] => i = j}}

\* C30: any two orderings of the same actions on one target_id leave the
\* tracker with the same inferred_type for it.
C30_OrderIndependent ==
    \A t \in DOMAIN entities :
        \A acts \in Orderings :
            Replay(acts, <<>>)[t].inferred_type = entities[t].inferred_type

\* ---------------------------------------------------------------------
\* The summary request of the web server (src/web/server.py): the replay
\* files of the directories are parsed in worker processes and the first
\* `limit` parsed replays of the wanted changelist are summarised.
\* ---------------------------------------------------------------------

\* How many replay files the directories hold at most.
MaxFiles == 3

\* The largest `limit` parameter of a request.
MaxLimit == 2

\* The changelists of the replay files.
Changelists == {1, 2}

\* str() and int() on the changelists of the files.
ChangelistStr(n) == IF n = 1 THEN "1" ELSE "2"
ChangelistInt(s) == IF s = "1" THEN 1 ELSE 2

\* A replay file of a directory: its name, its modification time, and what
\* parsing it gives (whether it succeeds, and the changelist of its header).
\* Modification times are distinct, so "most recent" is well defined.
ReplayFiles ==
    {[name |-> n, mtime |-> n, ok |-> ok, changelist |-> cl] :
        n \in 1..MaxFiles, ok \in BOOLEAN, cl \in Changelists}

\* The directory listings: files with distinct names, in any order.
Listings ==
    UNION {{s \in [1..n -> ReplayFiles] :
               \A i, j \in 1..n : s[i].name = s[j].name => i = j} :
           n \in 0..MaxFiles}

\* list.sort(key=mtime, reverse=True): a stable sort, largest mtime first.
RECURSIVE InsertByMtime(_, _)
InsertByMtime(sorted, r) ==
    IF sorted = <<>> THEN <<r>>
    ELSE IF Head(sorted).mtime >= r.mtime
         THEN <<Head(sorted)>> \o InsertByMtime(Tail(sorted), r)
         ELSE <<r>> \o sorted

RECURSIVE SortByMtime(_)
SortByMtime(files) ==
    IF files = <<>> THEN <<>>
    ELSE InsertByMtime(SortByMtime(SubSeq(files, 1, Len(files) - 1)),
                       files[Len(files)])

\* _parse_replay_file of one file: the data of a successful parse.
parse_replay_file(rf) ==
    [success |-> rf.ok, name |-> rf.name,
     data |-> [name |-> rf.name, header |-> [changelist |-> rf.changelist]]]

InitSummary ==
    /\ pc = "get_summary"
    /\ replay_files \in Listings
    /\ futures = {}
    /\ replays_data = <<>>
    /\ request \in [limit : 1..MaxLimit,
                    changelist : {None} \cup {ChangelistStr(c) : c \in Changelists}]
    /\ entities = Unused /\ log = Unused
    /\ DecodeUnused /\ BuildUnused /\ ParseUnused /\ FactionUnused /\ TimeUnused
    /\ OptionUnused

\* get_summary up to the submission: the listing is sorted, most recently
\* modified first, and every file is handed to the process pool.
SubmitAll ==
    /\ pc = "get_summary"
    /\ replay_files' = SortByMtime(replay_files)
    /\ futures' = DOMAIN replay_files
    /\ pc' = "as_completed"
    /\ UNCHANGED <<replays_data, request, entityVars, decodeVars, buildVars,
                   parseVars, factionVars, timeVars, optionVars>>

\* One turn of `for future in as_completed(futures)`: some future that has
\* not been handed out yet completes, and a successful result is appended.
FutureCompleted ==
    /\ pc = "as_completed"
    /\ \E f \in futures :
          LET result == parse_replay_file(replay_files[f])
          IN  /\ futures' = futures \ {f}
              /\ replays_data' =
                    IF result.success THEN Append(replays_data, result.data)
                    ELSE replays_data
    /\ UNCHANGED <<pc, replay_files, request, entityVars, decodeVars, buildVars,
                   parseVars, factionVars, timeVars, optionVars>>

\* After the loop: the changelist defaults to the latest one seen, the
\* parsed replays are filtered by it and cut to `limit`.
FilterAndLimit ==
    /\ pc = "as_completed"
    /\ futures = {}
    /\ LET changelists == {replays_data[i].header.changelist : i \in DOMAIN replays_data}
           changelist_filter ==
               IF request.changelist = None /\ changelists # {}
               THEN ChangelistStr(SetMax(changelists))
               ELSE request.changelist
           filtered ==
               IF changelist_filter # None
               THEN SelectSeq(replays_data,
                              LAMBDA r : r.header.changelist = ChangelistInt(changelist_filter))
               ELSE replays_data
           kept == IF request.limit < Len(filtered) THEN request.limit ELSE Len(filtered)
       IN  /\ replays_data' = SubSeq(filtered, 1, kept)
           /\ request' = [request EXCEPT !.changelist = changelist_filter]
    /\ pc' = "send_json"
    /\ UNCHANGED <<replay_files, futures, entityVars, decodeVars, buildVars,
                   parseVars, factionVars, timeVars, optionVars>>

NextSummary == SubmitAll \/ FutureCompleted \/ FilterAndLimit

SpecSummary == InitSummary /\ [][NextSummary]_vars

\* The positions in replay_files (most recently modified first) of the
\* files that parse and have the changelist the summary is about.
Matching ==
    {i \in DOMAIN replay_files :
        /\ replay_files[i].ok
        /\ request.changelist # None
        /\ replay_files[i].changelist = ChangelistInt(request.changelist)}

\* The most recently modified `limit` of them.
MostRecent ==
    {i \in Matching : Cardinality({j \in Matching : j < i}) < request.limit}

\* C29: when more than `limit` successfully parsed replays match the
\* changelist filter, the replays that enter the summary are the `limit`
\* most recently modified ones, whatever the order in which the worker
\* processes completed.
C29_MostRecentSummarised ==
    (pc = "send_json" /\ Cardinality(Matching) > request.limit) =>
        {r.name : r \in Range(replays_data)} =
            {replay_files[i].name : i \in MostRecent}

=============================================================================
